---- MODULE Spec2Model ----
\* Verification model of the money -> time content script (money_is_time).
\* The program state is the live document tree, the current settings, the
\* config store, the debounce timer of the mutation observer, and the pending
\* settings loads.  Pure functions (formatTimeFromMoney, the MONEY lexer,
\* buildAnnotatedFragment) are operators; they are exercised on bounded inputs
\* by the specifications SpecFmt and SpecText, and by the scan passes of Spec.
\*
\* Numbers: JavaScript numbers are modelled as exact rationals [n, d] (d > 0,
\* lowest terms).  Floating-point rounding is outside the model.
\* Strings are sequences of one-character strings.
EXTENDS Integers, Sequences, FiniteSets, TLC

VARIABLES
  tree,          \* document.body and everything below it
  settings,      \* the settings object of the content script
  store,         \* chrome.storage.sync: the stored settings
  loadQueue,     \* storage reads issued by loadSettings, callbacks not yet run
  observers,     \* number of MutationObservers installed on the document
  timers,        \* pending setTimeout timers: [id, left] (time left to due)
  t,             \* the timer id held by the debounce closure (0: undefined)
  sinceNotify,   \* time since the last observer callback, capped at Wait
  hostBudget,    \* host mutations still to come
  storeBudget,   \* config changes still to come
  last,          \* the step just taken: [op, notified]
  passMutations, \* replaceChild calls of the most recent scan pass
  passesInRow,   \* scan passes since the last external change, capped at 2
  stormNotifs,   \* notifications of the current storm (gaps below Wait), capped
  stormRuns,     \* debounced rescans executed since the storm began
  markedLexed,   \* text leaves under a marker that a pass lexed or replaced
  call,          \* pure functions: the arguments of the call under way
  ret            \* pure functions: the result, once the call is done

pureVars == <<call, ret>>
domVars == <<tree, settings, store, loadQueue, observers, timers, t, sinceNotify,
             hostBudget, storeBudget, last, passMutations, passesInRow,
             stormNotifs, stormRuns, markedLexed>>
vars == <<domVars, pureVars>>

\* The element of a one-element set.  The(F(v) : v \in {e}) is F(e) with e
\* computed once, as a const or let of the program is.
The(S) == CHOOSE x \in S : TRUE

-----------------------------------------------------------------------------
\* Rational arithmetic

RECURSIVE GCD(_, _)
GCD(a, b) == IF b = 0 THEN a ELSE The({GCD(b, r) : r \in {a % b}})

Abs(x) == IF x < 0 THEN -x ELSE x

\* n/d in lowest terms, d > 0
Reduced(n, d, g) ==
  [n |-> ((IF d < 0 THEN -1 ELSE 1) * n) \div g, d |-> Abs(d) \div g]
Rat(n, d) ==
  The({Reduced(nv, dv, GCD(Abs(nv), Abs(dv))) : nv \in {n}, dv \in {d}})

RInt(k) == [n |-> k, d |-> 1]
RMul(a, b) == Rat(a.n * b.n, a.d * b.d)
RDiv(a, b) == Rat(a.n * b.d, a.d * b.n)
RAdd(a, b) == Rat(a.n * b.d + b.n * a.d, a.d * b.d)
RSub(a, b) == Rat(a.n * b.d - b.n * a.d, a.d * b.d)
RLt(a, b) == a.n * b.d < b.n * a.d
RLe(a, b) == a.n * b.d <= b.n * a.d
RPos(a) == a.n > 0
RIsInt(a) == a.d = 1
\* Math.floor of a rational
RFloor(a) == a.n \div a.d

-----------------------------------------------------------------------------
\* Strings

DigitChars == <<"0", "1", "2", "3", "4", "5", "6", "7", "8", "9">>

\* `${count}`: the decimal digits of a natural number
RECURSIVE NatToString(_)
NatToString(k) ==
  IF k < 10 THEN <<DigitChars[k + 1]>>
  ELSE NatToString(k \div 10) \o <<DigitChars[(k % 10) + 1]>>

\* Array.prototype.join
RECURSIVE Join(_, _)
Join(parts, sep) ==
  IF parts = <<>> THEN <<>>
  ELSE IF Len(parts) = 1 THEN parts[1]
  ELSE parts[1] \o sep \o Join(Tail(parts), sep)

-----------------------------------------------------------------------------
\* Settings (the DEFAULT object)

DefaultHourlyRate == 15
DefaultHoursPerDay == 8
DefaultDaysPerWeek == 5

DEFAULT ==
  [hourlyRate |-> RInt(DefaultHourlyRate),
   displayMode |-> "inline",
   hoursPerDay |-> RInt(DefaultHoursPerDay),
   daysPerWeek |-> RInt(DefaultDaysPerWeek)]

-----------------------------------------------------------------------------
\* formatTimeFromMoney

\* null: a value no string equals
NULL == <<"null">>

\* the guard of the first line; amounts and rates of the model are finite
InvalidArgs(amount, hourlyRate) ==
  amount.d = 0 \/ ~RPos(amount) \/ hourlyRate.d = 0 \/ ~RPos(hourlyRate)

\* the UNITS table built from the settings
UNITS(s) ==
  LET workMinutesPerDay == RMul(s.hoursPerDay, RInt(60))
      workMinutesPerWeek == RMul(workMinutesPerDay, s.daysPerWeek)
      workMinutesPerMonth == RMul(workMinutesPerWeek, Rat(52, 12))
      workMinutesPerYear == RMul(workMinutesPerWeek, RInt(52))
  IN << [short |-> <<"c">>, minutes |-> RMul(workMinutesPerYear, RInt(100))],
        [short |-> <<"y">>, minutes |-> workMinutesPerYear],
        [short |-> <<"m", "o">>, minutes |-> workMinutesPerMonth],
        [short |-> <<"w">>, minutes |-> workMinutesPerWeek],
        [short |-> <<"d">>, minutes |-> workMinutesPerDay],
        [short |-> <<"h">>, minutes |-> RInt(60)],
        [short |-> <<"m", "i", "n">>, minutes |-> RInt(1)] >>

totalMinutes(amount, hourlyRate) == RMul(RDiv(amount, hourlyRate), RInt(60))

InitialRemainingCeil(total) == RInt(-RFloor([n |-> -total.n, d |-> total.d]))
\* let remaining = Math.floor(totalMinutes)
InitialRemaining(total) == RInt(RFloor(total))

PartsFullNever(parts) == FALSE
\* if (parts.length >= 3) break
PartsFull(parts) == Len(parts) >= 3

\* Math.floor(remaining / unit.minutes)
UnitCount(remaining, minutes) == RFloor(RDiv(remaining, minutes))

\* the for loop over UNITS; parts holds [count, short, minutes] per pushed part
RECURSIVE UnitLoop(_, _, _, _)
\* the loop body for a unit with positive minutes, count being its count
UnitStep(units, i, remaining, parts, count) ==
  IF count > 0
  THEN The({UnitLoop(units, i + 1, rest, pushed) :
              rest \in {RSub(remaining, RMul(RInt(count), units[i].minutes))},
              pushed \in {Append(parts, [count |-> count, short |-> units[i].short,
                                         minutes |-> units[i].minutes])}})
  ELSE UnitLoop(units, i + 1, remaining, parts)

UnitLoop(units, i, remaining, parts) ==
  IF i > Len(units) \/ PartsFull(parts) THEN parts
  ELSE IF ~RPos(units[i].minutes) THEN UnitLoop(units, i + 1, remaining, parts)
  ELSE The({UnitStep(units, i, remaining, parts, count) :
              count \in {UnitCount(remaining, units[i].minutes)}})

EmittedParts(amount, hourlyRate, s) ==
  The({UnitLoop(units, 1, remaining, <<>>) :
         units \in {UNITS(s)},
         remaining \in {InitialRemaining(totalMinutes(amount, hourlyRate))}})

PartString(p) == NatToString(p.count) \o p.short

JoinSeparatorNone == <<>>
\* parts.join(" ")
JoinSeparator == <<" ">>

BelowOneMinute == <<"<", "1", "m">>

\* the returned string for the pushed parts
JoinParts(parts) ==
  IF Len(parts) = 0 THEN BelowOneMinute
  ELSE Join([i \in 1..Len(parts) |-> PartString(parts[i])], JoinSeparator)

formatTimeFromMoney(amount, hourlyRate, s) ==
  IF InvalidArgs(amount, hourlyRate) THEN NULL
  ELSE The({JoinParts(parts) : parts \in {EmittedParts(amount, hourlyRate, s)}})

-----------------------------------------------------------------------------
\* Characters

UpperChars == <<"A", "B", "C", "D", "E", "F", "G", "H", "I", "J", "K", "L", "M",
                "N", "O", "P", "Q", "R", "S", "T", "U", "V", "W", "X", "Y", "Z">>
LowerChars == <<"a", "b", "c", "d", "e", "f", "g", "h", "i", "j", "k", "l", "m",
                "n", "o", "p", "q", "r", "s", "t", "u", "v", "w", "x", "y", "z">>

Range(f) == {f[i] : i \in DOMAIN f}

\* the "i" flag: characters compare by their lower-case form
UpperSet == Range(UpperChars)
DigitSet == Range(DigitChars)
WordSet == Range(UpperChars) \cup Range(LowerChars) \cup Range(DigitChars) \cup {"_"}

ToLower(ch) ==
  IF ch \in UpperSet
  THEN LowerChars[CHOOSE i \in 1..26 : UpperChars[i] = ch]
  ELSE ch

IsDigit(ch) == ch \in DigitSet
\* \s
IsSpace(ch) == ch \in {" ", "\n", "\t"}
\* \w
IsWordChar(ch) == ch \in WordSet

\* the character at 1-based position p, "" outside the text
At(text, p) == IF p >= 1 /\ p <= Len(text) THEN text[p] ELSE ""

Slice(text, from, to) == SubSeq(text, from, to - 1)

-----------------------------------------------------------------------------
\* The MONEY pattern.  Positions are 1-based and ends are exclusive; a
\* sub-pattern that does not match yields 0.  The pattern is matched as the
\* backtracking engine matches it: quantifiers are greedy, and a shorter
\* NUMBER or \s* never lets a later part match, since the character it would
\* give back (a digit, "," or ".", or white space) starts none of them.

RECURSIVE SkipSpace(_, _)
\* \s*
SkipSpace(text, p) ==
  IF IsSpace(At(text, p)) THEN SkipSpace(text, p + 1) ELSE p

RECURSIVE SkipDigits(_, _)
\* \d*
SkipDigits(text, p) ==
  IF IsDigit(At(text, p)) THEN SkipDigits(text, p + 1) ELSE p

RECURSIVE CommaGroups(_, _)
\* (?:,\d{3})*
CommaGroups(text, p) ==
  IF /\ At(text, p) = ","
     /\ IsDigit(At(text, p + 1)) /\ IsDigit(At(text, p + 2)) /\ IsDigit(At(text, p + 3))
  THEN CommaGroups(text, p + 4)
  ELSE p

\* (?:\.\d+)? after the integer part that ends at intEnd
FractionEnd(text, intEnd) ==
  IF At(text, intEnd) = "." /\ IsDigit(At(text, intEnd + 1))
  THEN SkipDigits(text, intEnd + 1)
  ELSE intEnd

\* the number whose leading digit run is [p, q)
NumberFrom(text, p, q) ==
  IF q = p THEN 0
  ELSE FractionEnd(text, IF q - p <= 3 THEN CommaGroups(text, q) ELSE q)

\* NUMBER = (?:\d{1,3}(?:,\d{3})+|\d+)(?:\.\d+)?
NumberEnd(text, p) == NumberFrom(text, p, SkipDigits(text, p))

\* \b at position p: exactly one of the characters around it is a word character
WordBoundary(text, p) == IsWordChar(At(text, p - 1)) # IsWordChar(At(text, p))

WordAt(text, p, w) ==
  /\ p + Len(w) - 1 <= Len(text)
  /\ \A i \in 1..Len(w) : ToLower(text[p + i - 1]) = w[i]

\* the end of the first of the alternatives hits, 0 when there is none
FirstAlternativeEnd(p, words, hits) ==
  IF hits = {} THEN 0
  ELSE p + Len(words[CHOOSE i \in hits : \A j \in hits : i <= j])

\* \b(?:w1|w2|...)\b at p: the end of the first alternative that matches
WholeWordEnd(text, p, words) ==
  IF p < 1 \/ p > Len(text) \/ ~WordBoundary(text, p) THEN 0
  ELSE The({FirstAlternativeEnd(p, words, hits) :
              hits \in {{i \in 1..Len(words) :
                           /\ WordAt(text, p, words[i])
                           /\ WordBoundary(text, p + Len(words[i]))}}})

SYMBOLS == {"$", "£", "€"}

\* SCALE, in the order of the alternation
ScaleWords ==
  << <<"t", "r", "i", "l", "l", "i", "o", "n">>, <<"t", "n">>, <<"t">>,
     <<"b", "i", "l", "l", "i", "o", "n">>, <<"b", "n">>, <<"b">>,
     <<"m", "i", "l", "l", "i", "o", "n">>, <<"m", "n">>, <<"m">>,
     <<"t", "h", "o", "u", "s", "a", "n", "d">>, <<"k">> >>

\* CODES
CodeWords == << <<"u", "s", "d">>, <<"g", "b", "p">>, <<"e", "u", "r">> >>

ScaleEnd(text, p) == WholeWordEnd(text, p, ScaleWords)
CodeEnd(text, p) == WholeWordEnd(text, p, CodeWords)

NoMatch == [index |-> 0, end |-> 0, num |-> <<>>, numEnd |-> 0, suf |-> <<>>]

\* NUMBER\s*(SCALE)? from n1: where the number ends (0: no number), where the
\* white space after it ends, and where the scale word ends (0: no scale word)
ScaledNumberRec(text, n1, n2, s1) ==
  [numStart |-> n1, numEnd |-> n2, sufStart |-> s1,
   sufEnd |-> IF n2 = 0 THEN 0 ELSE ScaleEnd(text, s1)]
ScaledNumber(text, n1) ==
  The({ScaledNumberRec(text, n1, n2, SkipSpace(text, n2)) :
         n2 \in {NumberEnd(text, n1)}})

\* the match [p, e) with its num and suf groups
MatchRec(text, p, e, sn) ==
  [index |-> p, end |-> e, num |-> Slice(text, sn.numStart, sn.numEnd),
   numEnd |-> sn.numEnd,
   suf |-> IF sn.sufEnd = 0 THEN <<>> ELSE Slice(text, sn.sufStart, sn.sufEnd)]

\* a match that ends with NUMBER\s*(SCALE)?
EndsWithScaledNumber(text, p, sn) ==
  IF sn.numEnd = 0 THEN NoMatch
  ELSE MatchRec(text, p, IF sn.sufEnd = 0 THEN sn.sufStart ELSE sn.sufEnd, sn)

\* SYMBOL_FIRST = (?<sym>[$£€])\s*(?<num1>NUMBER)\s*(?<suf1>SCALE)?
SymbolFirst(text, p) ==
  IF At(text, p) \notin SYMBOLS THEN NoMatch
  ELSE The({EndsWithScaledNumber(text, p, sn) :
              sn \in {ScaledNumber(text, SkipSpace(text, p + 1))}})

\* \s*(?<code1>CODES) after the scaled number sn
EndsWithCode(text, p, sn, c2) ==
  IF sn.numEnd = 0 \/ c2 = 0 THEN NoMatch ELSE MatchRec(text, p, c2, sn)
CodeAfter(text, p, sn) ==
  EndsWithCode(text, p, sn,
    CodeEnd(text, IF sn.sufEnd = 0 THEN sn.sufStart ELSE SkipSpace(text, sn.sufEnd)))

\* CODE_LAST = (?<num2>NUMBER)\s*(?<suf2>SCALE)?\s*(?<code1>CODES)
CodeLast(text, p) ==
  The({CodeAfter(text, p, sn) : sn \in {ScaledNumber(text, p)}})

\* \s*(?<num3>NUMBER)\s*(?<suf3>SCALE)? after the code that ends at c2
AfterCode(text, p, c2) ==
  IF c2 = 0 THEN NoMatch
  ELSE The({EndsWithScaledNumber(text, p, sn) :
              sn \in {ScaledNumber(text, SkipSpace(text, c2))}})

\* CODE_FIRST = (?<code2>CODES)\s*(?<num3>NUMBER)\s*(?<suf3>SCALE)?
CodeFirst(text, p) ==
  The({AfterCode(text, p, c2) : c2 \in {CodeEnd(text, p)}})

\* the first alternative that matches
FirstMatch(a, b, c) ==
  IF a # NoMatch THEN a ELSE IF b # NoMatch THEN b ELSE c

\* the alternation SYMBOL_FIRST|CODE_LAST|CODE_FIRST anchored at p
MatchAt(text, p) ==
  The({FirstMatch(a, b, c) :
         a \in {SymbolFirst(text, p)}, b \in {CodeLast(text, p)},
         c \in {CodeFirst(text, p)}})

RECURSIVE RegexExec(_, _)
\* the match m anchored at p, or else the search from p + 1
ExecFrom(text, p, m) == IF m # NoMatch THEN m ELSE RegexExec(text, p + 1)

\* MONEY.regex.exec with lastIndex = p - 1: the leftmost match at or after p
RegexExec(text, p) ==
  IF p > Len(text) THEN NoMatch
  ELSE The({ExecFrom(text, p, m) : m \in {MatchAt(text, p)}})

\* MONEY.regex.test with lastIndex = 0
RegexTestAlways(text) == TRUE
RegexTest(text) == RegexExec(text, 1) # NoMatch

\* SCALE_MAP; a factor 1eN is held as its exponent N
SCALE_MAP(key) ==
  CASE key \in {<<"k">>, <<"t", "h", "o", "u", "s", "a", "n", "d">>} -> 3
    [] key \in {<<"m">>, <<"m", "n">>, <<"m", "i", "l", "l", "i", "o", "n">>} -> 6
    [] key \in {<<"b">>, <<"b", "n">>, <<"b", "i", "l", "l", "i", "o", "n">>} -> 9
    [] key \in {<<"t">>, <<"t", "n">>, <<"t", "r", "i", "l", "l", "i", "o", "n">>} -> 12
    [] OTHER -> 0

\* multiplier(suffix), as the exponent of the power of ten (1 = 1e0)
multiplier(suffix) ==
  IF suffix = <<>> THEN 0
  ELSE SCALE_MAP([i \in 1..Len(suffix) |-> ToLower(suffix[i])])

RECURSIVE Pow10(_)
Pow10(e) == IF e = 0 THEN 1 ELSE 10 * Pow10(e - 1)

RECURSIVE StripCommas(_)
\* .replace(/,/g, "")
StripCommas(str) ==
  IF str = <<>> THEN <<>>
  ELSE IF Head(str) = "," THEN StripCommas(Tail(str))
  ELSE <<Head(str)>> \o StripCommas(Tail(str))

DigitValue(ch) == (CHOOSE i \in 1..10 : DigitChars[i] = ch) - 1

RECURSIVE DigitsValue(_)
DigitsValue(digs) ==
  IF digs = <<>> THEN 0
  ELSE The({10 * DigitsValue(front) + DigitValue(digs[Len(digs)]) :
              front \in {SubSeq(digs, 1, Len(digs) - 1)}})

NaN == [n |-> 0, d |-> 0]

\* digits [. digits] read as a number; NaN when both digit runs are empty
DecimalValue(intDigits, fracDigits) ==
  IF intDigits = <<>> /\ fracDigits = <<>> THEN NaN
  ELSE RAdd(RInt(DigitsValue(intDigits)),
            Rat(DigitsValue(fracDigits), Pow10(Len(fracDigits))))

\* the decimal prefix of str whose integer digits end at i2
DecimalPrefix(str, i2) ==
  DecimalValue(Slice(str, 1, i2),
               IF At(str, i2) = "." THEN Slice(str, i2 + 1, SkipDigits(str, i2 + 1))
               ELSE <<>>)

\* parseFloat of a string over digits and "." : the longest prefix
\* digits [. digits] or . digits; NaN when there is none
parseFloat(str) == The({DecimalPrefix(str, i2) : i2 \in {SkipDigits(str, 1)}})

IsFinite(x) == x.d # 0

\* base * multiplier(suffix), NaN when base is
TimesMultiplier(base, suffix) ==
  IF ~IsFinite(base) THEN NaN ELSE RMul(base, RInt(Pow10(multiplier(suffix))))

\* MONEY.amountFromMatch
amountFromMatch(m) ==
  The({TimesMultiplier(base, m.suf) : base \in {parseFloat(StripCommas(m.num))}})

-----------------------------------------------------------------------------
\* Document nodes.  A text node has a value; an element has a tag, a class,
\* the data-mt-processed and data-mt-ignore attributes, a title and children.

TextNode(v) ==
  [kind |-> "text", value |-> v, tag |-> "", class |-> "", processed |-> FALSE,
   ignore |-> FALSE, title |-> <<>>, children |-> <<>>]

Element(tag, class, children) ==
  [kind |-> "element", value |-> <<>>, tag |-> tag, class |-> class,
   processed |-> FALSE, ignore |-> FALSE, title |-> <<>>, children |-> children]

IsText(node) == node.kind = "text"

RECURSIVE TextContent(_)
RECURSIVE TextContentOfList(_)
\* Node.textContent: the values of the text descendants, in document order
TextContent(node) ==
  IF IsText(node) THEN node.value ELSE TextContentOfList(node.children)
TextContentOfList(nodes) ==
  IF nodes = <<>> THEN <<>>
  ELSE TextContent(Head(nodes)) \o TextContentOfList(Tail(nodes))

\* element.textContent = str: one text child, none for the empty string
WithTextContent(el, str) ==
  [el EXCEPT !.children = IF str = <<>> THEN <<>> ELSE <<TextNode(str)>>]

-----------------------------------------------------------------------------
\* buildAnnotatedFragment

RECURSIVE AllMatches(_, _)
MatchesFromOverlap(text, m) ==
  IF m = NoMatch THEN <<>> ELSE <<m>> \o AllMatches(text, m.index + 1)
MatchesFrom(text, m) ==
  IF m = NoMatch THEN <<>> ELSE <<m>> \o AllMatches(text, m.end)
\* the matches of the while loop, in the order exec returns them
AllMatches(text, p) == The({MatchesFrom(text, m) : m \in {RegexExec(text, p)}})

\* /\s$/.test(fullMatch)
EndsInSpace(str) == str # <<>> /\ IsSpace(str[Len(str)])

\* ann.textContent of the inline branch
InlineAnnotation(fullMatch, timeStr) ==
  (IF EndsInSpace(fullMatch) THEN <<>> ELSE <<" ">>) \o <<"(">> \o timeStr \o <<")", " ">>

WrapperUnmarked(fullMatch, timeStr, displayMode) ==
  WithTextContent(Element("SPAN", "mt-wrapper", <<>>),
                  fullMatch \o InlineAnnotation(fullMatch, timeStr))
\* the wrapper span of one convertible match
Wrapper(fullMatch, timeStr, displayMode) ==
  LET wrapper == [Element("SPAN", "mt-wrapper", <<>>) EXCEPT !.processed = TRUE] IN
  CASE displayMode = "tooltip" ->
         [wrapper EXCEPT !.children = <<TextNode(fullMatch)>>, !.title = timeStr]
    [] displayMode = "inline" ->
         [wrapper EXCEPT !.children =
            <<TextNode(fullMatch),
              WithTextContent(Element("SPAN", "mt-annotation", <<>>),
                              InlineAnnotation(fullMatch, timeStr))>>]
    [] displayMode = "replace" ->
         [wrapper EXCEPT !.children = <<TextNode(timeStr)>>]
    [] OTHER -> wrapper

MatchedNodeWrapped(fullMatch, timeStr, displayMode) ==
  Wrapper(fullMatch, timeStr, displayMode)
\* the node appended for a match: the wrapper, or the plain money text when
\* there is no time string
MatchedNode(fullMatch, timeStr, displayMode) ==
  IF timeStr # NULL THEN Wrapper(fullMatch, timeStr, displayMode)
  ELSE TextNode(fullMatch)

\* what one match appends to the fragment
MatchNode(text, m, s) ==
  The({MatchedNode(fullMatch, timeStr, s.displayMode) :
         fullMatch \in {Slice(text, m.index, m.end)},
         timeStr \in {formatTimeFromMoney(amountFromMatch(m), s.hourlyRate, s)}})

RECURSIVE FragmentLoop(_, _, _, _)
\* one turn of the while loop for the match m, or the trailing text
FragmentStep(text, s, lastIndex, frag, m) ==
  IF m = NoMatch
  THEN IF lastIndex <= Len(text)
       THEN Append(frag, TextNode(Slice(text, lastIndex, Len(text) + 1)))
       ELSE frag
  ELSE The({FragmentLoop(text, s, m.end, grown) :
              grown \in {(IF m.index > lastIndex
                           THEN Append(frag, TextNode(Slice(text, lastIndex, m.index)))
                           ELSE frag) \o <<MatchNode(text, m, s)>>}})

\* the while loop and the trailing text; lastIndex is the 1-based position of
\* the first character not yet in the fragment
FragmentLoop(text, s, lastIndex, frag) ==
  The({FragmentStep(text, s, lastIndex, frag, m) : m \in {RegexExec(text, lastIndex)}})

\* the child nodes of the returned DocumentFragment
buildAnnotatedFragment(textNodeValue, s) == FragmentLoop(textNodeValue, s, 1, <<>>)

-----------------------------------------------------------------------------
\* The document tree.  A path is the sequence of child indices from the body;
\* <<>> is the body itself.

RECURSIVE NodeAt(_, _)
NodeAt(root, path) ==
  IF path = <<>> THEN root ELSE NodeAt(root.children[Head(path)], Tail(path))

Prefix(path, k) == SubSeq(path, 1, k)
ParentPath(path) == Prefix(path, Len(path) - 1)

SpliceAtEnd(seq, i, nodes) ==
  SubSeq(seq, 1, i - 1) \o SubSeq(seq, i + 1, Len(seq)) \o nodes
\* seq with the element at index i replaced by the sequence nodes
Splice(seq, i, nodes) ==
  SubSeq(seq, 1, i - 1) \o nodes \o SubSeq(seq, i + 1, Len(seq))

RECURSIVE ReplaceAt(_, _, _)
\* the tree with the node at path replaced by the sequence nodes
ReplaceAt(root, path, nodes) ==
  IF Len(path) = 1
  THEN [root EXCEPT !.children = Splice(root.children, path[1], nodes)]
  ELSE [root EXCEPT !.children[Head(path)] =
          ReplaceAt(root.children[Head(path)], Tail(path), nodes)]

RECURSIVE DocOrder(_, _)
RECURSIVE DocOrderFrom(_, _, _)
\* the paths of the descendants of node (at path), in document order
DocOrder(node, path) == DocOrderFrom(node, path, 1)
DocOrderFrom(node, path, i) ==
  IF i > Len(node.children) THEN <<>>
  ELSE <<path \o <<i>>>> \o DocOrder(node.children[i], path \o <<i>>)
         \o DocOrderFrom(node, path, i + 1)

RECURSIVE NodeCount(_)
RECURSIVE NodeCountOfList(_)
NodeCount(node) == 1 + NodeCountOfList(node.children)
NodeCountOfList(nodes) ==
  IF nodes = <<>> THEN 0 ELSE NodeCount(Head(nodes)) + NodeCountOfList(Tail(nodes))

\* Tags to skip when scanning
SKIP_TAGS == {"SCRIPT", "STYLE", "NOSCRIPT", "IFRAME", "CODE", "PRE", "TEXTAREA", "INPUT"}

ClosestProcessedNever(root, path) == FALSE
\* element.closest("[data-mt-processed]") for the element at path
ClosestProcessed(root, path) ==
  \E k \in 0..Len(path) : NodeAt(root, Prefix(path, k)).processed

\* element.closest("[data-mt-ignore]") for the element at path
ClosestIgnore(root, path) ==
  \E k \in 0..Len(path) : NodeAt(root, Prefix(path, k)).ignore

\* !node.nodeValue || !node.nodeValue.trim()
IsBlank(value) == \A i \in 1..Len(value) : IsSpace(value[i])

\* the acceptNode filter of the TreeWalker, for the text node at path
acceptNode(root, path) ==
  /\ ~IsBlank(NodeAt(root, path).value)
  /\ NodeAt(root, ParentPath(path)).tag \notin SKIP_TAGS
  /\ ~ClosestProcessed(root, ParentPath(path))

\* textNodes: the accepted text nodes, collected in document order
CollectTextNodes(root) ==
  SelectSeq(DocOrder(root, <<>>),
            LAMBDA path : IsText(NodeAt(root, path)) /\ acceptNode(root, path))

\* the checks of processTextNode that come before the text is read
ProcessGuards(root, path) ==
  /\ IsText(NodeAt(root, path))
  /\ NodeAt(root, ParentPath(path)).tag \notin SKIP_TAGS
  /\ ~ClosestProcessed(root, ParentPath(path))
  /\ ~ClosestIgnore(root, ParentPath(path))

\* processTextNode: [tree, lexed, replaced, count] where lexed tells that the
\* text was tested against the pattern, replaced that replaceChild was called,
\* and count is the number of nodes put in its place
\* parent.replaceChild(frag, node) when the fragment has child nodes
ReplaceWithFragment(root, path, frag) ==
  IF Len(frag) > 0
  THEN [tree |-> ReplaceAt(root, path, frag), lexed |-> TRUE,
        replaced |-> TRUE, count |-> Len(frag)]
  ELSE [tree |-> root, lexed |-> TRUE, replaced |-> FALSE, count |-> 1]

\* the part of processTextNode that reads the text
ProcessText(root, path, s, text) ==
  IF ~RegexTest(text)
  THEN [tree |-> root, lexed |-> TRUE, replaced |-> FALSE, count |-> 1]
  ELSE The({ReplaceWithFragment(root, path, frag) :
              frag \in {buildAnnotatedFragment(text, s)}})

processTextNode(root, path, s) ==
  IF ~ProcessGuards(root, path)
  THEN [tree |-> root, lexed |-> FALSE, replaced |-> FALSE, count |-> 1]
  ELSE The({ProcessText(root, path, s, text) : text \in {NodeAt(root, path).value}})

ShiftPathNone(q, p, count) == q
\* where the node at path q is after the child at path p became count nodes
ShiftPath(q, p, count) ==
  LET d == Len(p) IN
  IF Len(q) >= d /\ Prefix(q, d - 1) = Prefix(p, d - 1) /\ q[d] > p[d]
  THEN [q EXCEPT ![d] = @ + count - 1]
  ELSE q

\* a text leaf with an ancestor bearing data-mt-processed
UnderMarker(root, path) ==
  \E k \in 0..(Len(path) - 1) : NodeAt(root, Prefix(path, k)).processed

RECURSIVE ProcessAll(_, _, _, _)
\* the rest of the loop after processTextNode returned r for the node at p
ProcessRest(root, paths, s, acc, p, r) ==
  The({ProcessAll(r.tree, rest, s, counted) :
         rest \in {[i \in 1..(Len(paths) - 1) |-> ShiftPath(paths[i + 1], p, r.count)]},
         counted \in {[mutations |-> acc.mutations + (IF r.replaced THEN 1 ELSE 0),
                        marked |-> acc.marked
                          + (IF r.lexed /\ UnderMarker(root, p) THEN 1 ELSE 0)]}})

\* for (const tn of textNodes) processTextNode(tn); acc counts the
\* replacements and the leaves under a marker that were lexed
ProcessAll(root, paths, s, acc) ==
  IF paths = <<>> THEN [tree |-> root, mutations |-> acc.mutations, marked |-> acc.marked]
  ELSE The({ProcessRest(root, paths, s, acc, Head(paths), r) :
              r \in {processTextNode(root, Head(paths), s)}})

\* processDocument(document.body)
processDocument(root, s) ==
  The({ProcessAll(root, textNodes, s, [mutations |-> 0, marked |-> 0]) :
         textNodes \in {CollectTextNodes(root)}})

-----------------------------------------------------------------------------
\* Structured prices: the processDocument that also runs the price adapter

RECURSIVE TrimStart(_)
TrimStart(str) ==
  IF str # <<>> /\ IsSpace(Head(str)) THEN TrimStart(Tail(str)) ELSE str
RECURSIVE TrimEnd(_)
TrimEnd(str) ==
  IF str # <<>> /\ IsSpace(str[Len(str)])
  THEN TrimEnd(SubSeq(str, 1, Len(str) - 1)) ELSE str
\* String.prototype.trim
Trim(str) == TrimEnd(TrimStart(str))

\* querySelectorAll("." + class) below the node at path, in document order
DescendantsWithClass(root, path, class) ==
  SelectSeq(DocOrder(NodeAt(root, path), path),
            LAMBDA p : NodeAt(root, p).class = class)

\* the textContent of the first node found, "" when none was found
TextOfFirst(root, found) ==
  IF found = <<>> THEN <<>> ELSE TextContent(NodeAt(root, Head(found)))

\* el.querySelector("." + class)?.textContent || ''
SelectedText(root, path, class) ==
  TextOfFirst(root, DescendantsWithClass(root, path, class))

FallbackTextDecimal(symbol, whole, fraction) ==
  IF whole = <<>> THEN <<>> ELSE symbol \o whole \o <<".">> \o fraction
\* `${symbol}${whole}${fraction}`; "" stands for the return on an empty whole
FallbackText(symbol, whole, fraction) ==
  IF whole = <<>> THEN <<>> ELSE symbol \o whole \o fraction

\* priceText: the trimmed text of .a-offscreen when there is some, or else the
\* text put together from the visible spans
PriceTextFrom(root, path, offscreen) ==
  IF offscreen # <<>> THEN offscreen
  ELSE FallbackText(SelectedText(root, path, "a-price-symbol"),
                    SelectedText(root, path, "a-price-whole"),
                    SelectedText(root, path, "a-price-fraction"))
PriceText(root, path) ==
  PriceTextFrom(root, path, Trim(SelectedText(root, path, "a-offscreen")))

\* [\d,.]
IsNumeric(ch) == IsDigit(ch) \/ ch \in {",", "."}

RECURSIVE NumericStart(_, _)
NumericStart(str, p) ==
  IF p > Len(str) THEN 0
  ELSE IF IsNumeric(str[p]) THEN p ELSE NumericStart(str, p + 1)

RECURSIVE NumericEnd(_, _)
NumericEnd(str, p) == IF IsNumeric(At(str, p)) THEN NumericEnd(str, p + 1) ELSE p

NumericRun(str, from) == IF from = 0 THEN <<>> ELSE Slice(str, from, NumericEnd(str, from))
\* /([\d,.]+)/.exec(priceText): match[1], "" when there is no match
FirstNumeric(str) == NumericRun(str, NumericStart(str, 1))

\* what processStructuredPrice did for the element at path: examined tells that
\* it got past the closest("[data-mt-processed]") check, appended that it
\* appended its annotation and marked the element
PriceResult(root, path, examined, priceText, amount, appended) ==
  [tree |-> root, path |-> path, examined |-> examined, priceText |-> priceText,
   amount |-> amount, appended |-> appended]

\* ann.textContent = ` (~${timeStr})`
PriceAnnotation(timeStr) ==
  WithTextContent(Element("SPAN", "mt-annotation", <<>>),
                  <<" ", "(", "~">> \o timeStr \o <<")">>)

\* el.appendChild(ann); el.setAttribute("data-mt-processed", "true")
AppendAnnotation(root, path, timeStr) ==
  ReplaceAt(root, path,
    <<[NodeAt(root, path) EXCEPT !.children = Append(@, PriceAnnotation(timeStr)),
                                 !.processed = TRUE]>>)

\* from timeStr on: the two returns, and the annotation
AnnotatePrice(root, path, priceText, amount, timeStr) ==
  IF timeStr = NULL \/ DescendantsWithClass(root, path, "mt-annotation") # <<>>
  THEN PriceResult(root, path, TRUE, priceText, amount, FALSE)
  ELSE PriceResult(AppendAnnotation(root, path, timeStr), path, TRUE, priceText,
                   amount, TRUE)

\* from the match on
ParsePrice(root, path, s, priceText, numeric) ==
  IF numeric = <<>> THEN PriceResult(root, path, TRUE, priceText, NaN, FALSE)
  ELSE The({AnnotatePrice(root, path, priceText, amount,
                          formatTimeFromMoney(amount, s.hourlyRate, s)) :
              amount \in {parseFloat(StripCommas(numeric))}})

processStructuredPrice(root, path, s) ==
  IF ClosestProcessed(root, path)
  THEN PriceResult(root, path, FALSE, <<>>, NaN, FALSE)
  ELSE The({ParsePrice(root, path, s, priceText, FirstNumeric(priceText)) :
              priceText \in {PriceText(root, path)}})

structuredPriceSelectors == <<"a-price">>

\* document.querySelectorAll(selector)
QuerySelectorAll(root, class) == DescendantsWithClass(root, <<>>, class)

RECURSIVE ProcessPrices(_, _, _, _)
\* the rest of the forEach after processStructuredPrice returned r
PricesRest(paths, s, done, r) ==
  ProcessPrices(r.tree, Tail(paths), s, Append(done, [r EXCEPT !.tree = 0]))

\* querySelectorAll(selector).forEach(el => processStructuredPrice(el)); done
\* lists what was done for the elements so far
ProcessPrices(root, paths, s, done) ==
  IF paths = <<>> THEN [tree |-> root, prices |-> done]
  ELSE The({PricesRest(paths, s, done, r) :
              r \in {processStructuredPrice(root, Head(paths), s)}})

\* the result of the pass: mutations counts the replaceChild and appendChild
\* calls, replaced the replaceChild calls alone
WithPrices(texts, p) ==
  [tree |-> p.tree,
   mutations |-> texts.mutations
                   + Cardinality({i \in 1..Len(p.prices) : p.prices[i].appended}),
   marked |-> texts.marked, replaced |-> texts.mutations, prices |-> p.prices]

\* 2: the structured prices, after the text nodes
StructuredPrices(texts, s) ==
  WithPrices(texts,
    ProcessPrices(texts.tree,
                  QuerySelectorAll(texts.tree, structuredPriceSelectors[1]), s, <<>>))

\* processDocument(document.body) with the structured prices
processDocumentWithPrices(root, s) ==
  The({StructuredPrices(texts, s) : texts \in {processDocument(root, s)}})

-----------------------------------------------------------------------------
\* Settings load

\* a stored number that is missing or not numeric
Missing == NaN

PositiveOrStored(x, default) == x
\* res.x && Number(res.x) > 0 ? Number(res.x) : DEFAULT.x
PositiveOr(x, default) == IF IsFinite(x) /\ RPos(x) THEN x ELSE default

LoadedSettingsMerged(res) ==
  [settings EXCEPT !.hourlyRate = PositiveOr(res.hourlyRate, DEFAULT.hourlyRate)]
\* the assignments of the loadSettings callback; a missing displayMode is ""
LoadedSettings(res) ==
  [hourlyRate |-> PositiveOr(res.hourlyRate, DEFAULT.hourlyRate),
   displayMode |-> IF res.displayMode # "" THEN res.displayMode ELSE DEFAULT.displayMode,
   hoursPerDay |-> PositiveOr(res.hoursPerDay, DEFAULT.hoursPerDay),
   daysPerWeek |-> PositiveOr(res.daysPerWeek, DEFAULT.daysPerWeek)]

-----------------------------------------------------------------------------
\* debounce

\* debounce(fn, wait = 250), debounce(..., 250)
Wait == 250

ClearTimeoutNoop(pending, id) == pending
\* clearTimeout(t): a timer that is not pending any more is left alone
ClearTimeout(pending, id) == {x \in pending : x.id # id}

\* the id setTimeout returns: one no pending timer has
FreshId(pending) ==
  CHOOSE i \in 1..(Cardinality(pending) + 1) :
    /\ \A x \in pending : x.id # i
    /\ \A j \in 1..(i - 1) : \E x \in pending : x.id = j

SetTimeoutDue(pending, wait) == pending \cup {[id |-> FreshId(pending), left |-> 0]}
\* t = setTimeout(..., wait)
SetTimeout(pending, wait) == pending \cup {[id |-> FreshId(pending), left |-> wait]}

\* one call of the debounced function: <<timers, t>> afterwards
debounce(pending, id) ==
  <<SetTimeout(ClearTimeout(pending, id), Wait), FreshId(ClearTimeout(pending, id))>>

-----------------------------------------------------------------------------
\* Bounds and inputs of the document model

MaxHostOps == 2
MaxStoreChanges == 1
MaxNodes == 5
MaxStorm == 3
TickSteps == {125, 250}

Dollar5 == <<"$", "5">>
Dollar0 == <<"$", "0">>
Hello == <<"h", "i">>
HostTexts == {Dollar5, Dollar0}

Body(children) == Element("BODY", "", children)

InitialTrees ==
  { Body(<<TextNode(Dollar5)>>),
    Body(<<TextNode(Dollar0), Element("DIV", "", <<TextNode(Dollar5)>>)>>),
    Body(<<TextNode(Hello), Element("PRE", "", <<TextNode(Dollar5)>>)>>),
    Body(<<[Element("DIV", "", <<TextNode(Dollar5)>>) EXCEPT !.ignore = TRUE]>>),
    Body(<<TextNode(<<"$", "5", " ", "$", "0">>)>>) }

EmptyStore ==
  [hourlyRate |-> Missing, displayMode |-> "", hoursPerDay |-> Missing,
   daysPerWeek |-> Missing]
StoreValues ==
  { EmptyStore,
    [hourlyRate |-> RInt(40), displayMode |-> "tooltip", hoursPerDay |-> RInt(8),
     daysPerWeek |-> RInt(5)],
    [hourlyRate |-> RInt(0), displayMode |-> "replace", hoursPerDay |-> Rat(1, 2),
     daysPerWeek |-> Missing],
    [hourlyRate |-> RInt(-5), displayMode |-> "sidebar", hoursPerDay |-> Missing,
     daysPerWeek |-> RInt(-1)] }

NoCall == [text |-> <<>>, displayMode |-> ""]
Pending == [done |-> FALSE, str |-> <<>>, parts |-> <<>>, matches |-> <<>>, frag |-> <<>>]

\* the document side at rest (for the pure-function specifications)
DomIdle ==
  /\ tree = Body(<<>>) /\ settings = DEFAULT /\ store = EmptyStore
  /\ loadQueue = <<>> /\ observers = 0 /\ timers = {} /\ t = 0
  /\ sinceNotify = Wait /\ hostBudget = 0 /\ storeBudget = 0
  /\ last = [op |-> "start", notified |-> FALSE]
  /\ passMutations = 0 /\ passesInRow = 0 /\ stormNotifs = 0 /\ stormRuns = 0
  /\ markedLexed = 0

\* the content script has been evaluated: the onChanged listener is
\* registered and init() has issued its settings read
Init ==
  /\ tree \in InitialTrees
  /\ settings = DEFAULT
  /\ store = EmptyStore
  /\ loadQueue = <<[res |-> store, cb |-> "init"]>>
  /\ observers = 0 /\ timers = {} /\ t = 0
  /\ sinceNotify = Wait
  /\ hostBudget = MaxHostOps /\ storeBudget = MaxStoreChanges
  /\ last = [op |-> "start", notified |-> FALSE]
  /\ passMutations = 0 /\ passesInRow = 0 /\ stormNotifs = 0 /\ stormRuns = 0
  /\ markedLexed = 0
  /\ call = NoCall /\ ret = Pending

-----------------------------------------------------------------------------
\* Host mutations

AllPaths(root) == Range(DocOrder(root, <<>>))

\* elements of the page the host puts nodes into: not below a marker
HostContainers(root) ==
  {p \in AllPaths(root) \cup {<<>>} :
     ~IsText(NodeAt(root, p)) /\ ~ClosestProcessed(root, p)}

AppendChild(root, c, node) ==
  IF c = <<>> THEN [root EXCEPT !.children = Append(@, node)]
  ELSE ReplaceAt(root, c,
         <<[NodeAt(root, c) EXCEPT !.children = Append(@, node)]>>)

PrependChild(root, c, node) ==
  IF c = <<>> THEN [root EXCEPT !.children = <<node>> \o @]
  ELSE ReplaceAt(root, c,
         <<[NodeAt(root, c) EXCEPT !.children = <<node>> \o @]>>)

IsPrefixOf(p, q) == Len(p) <= Len(q) /\ Prefix(q, Len(p)) = p

\* the container path c after the node at path p was taken out
AfterRemoval(c, p) == ShiftPath(c, p, 0)

-----------------------------------------------------------------------------
\* Actions

Min(a, b) == IF a < b THEN a ELSE b
Max(a, b) == IF a > b THEN a ELSE b

\* the timers and the closure's t after a call of the debounced function
Debounced(d) == timers' = d[1] /\ t' = d[2]

\* the MutationObserver callback: debouncedProcess()
Notify(pending, runs) ==
  /\ Debounced(debounce(pending, t))
  /\ sinceNotify' = 0
  /\ IF stormNotifs > 0 /\ sinceNotify < Wait
     THEN stormNotifs' = Min(stormNotifs + 1, MaxStorm) /\ stormRuns' = runs
     ELSE stormNotifs' = 1 /\ stormRuns' = 0

NoNotify(pending, runs) ==
  /\ timers' = pending
  /\ stormRuns' = runs
  /\ UNCHANGED <<t, sinceNotify, stormNotifs>>

\* one scan pass with settings s; observed tells whether the observer is
\* installed while the pass runs; fresh that an external change came before it
PassDone(r, op, observed, pending, runs, fresh) ==
  /\ tree' = r.tree
  /\ passMutations' = r.mutations
  /\ markedLexed' = r.marked
  /\ passesInRow' = IF fresh THEN 1 ELSE Min(passesInRow + 1, 2)
  /\ last' = [op |-> op, notified |-> observed /\ r.mutations > 0]
  /\ IF observed /\ r.mutations > 0
     THEN Notify(pending, runs) ELSE NoNotify(pending, runs)

ScanPass(op, s, observed, pending, runs, fresh) ==
  \E r \in {processDocument(tree, s)} :
    PassDone(r, op, observed, pending, runs, fresh)

\* the host page changes the tree to r (one script run); the observer, when
\* installed, is called back before anything else runs
HostStep(r) ==
  /\ hostBudget > 0
  /\ r # tree /\ NodeCount(r) <= MaxNodes
  /\ tree' = r
  /\ hostBudget' = hostBudget - 1
  /\ passesInRow' = 0
  /\ last' = [op |-> "host", notified |-> observers > 0]
  /\ IF observers > 0 THEN Notify(timers, stormRuns) ELSE NoNotify(timers, stormRuns)
  /\ UNCHANGED <<settings, store, loadQueue, observers, storeBudget, passMutations,
                 markedLexed, pureVars>>

HostInsert ==
  \E c \in HostContainers(tree), v \in HostTexts :
    \/ HostStep(AppendChild(tree, c, TextNode(v)))
    \/ HostStep(PrependChild(tree, c, TextNode(v)))

HostRemove == \E p \in AllPaths(tree) : HostStep(ReplaceAt(tree, p, <<>>))

HostClone ==
  \E p \in AllPaths(tree), c \in HostContainers(tree) :
    HostStep(AppendChild(tree, c, NodeAt(tree, p)))

HostMove ==
  \E p \in AllPaths(tree), c \in HostContainers(tree) :
    /\ ~IsPrefixOf(p, c)
    /\ HostStep(AppendChild(ReplaceAt(tree, p, <<>>), AfterRemoval(c, p), NodeAt(tree, p)))

\* the options page saves: chrome.storage.onChanged fires for the sync area
\* and the listener calls loadSettings
StorageChanged ==
  /\ storeBudget > 0
  /\ \E v \in StoreValues :
       /\ store' = v
       /\ loadQueue' = Append(loadQueue, [res |-> v, cb |-> "reload"])
  /\ storeBudget' = storeBudget - 1
  /\ last' = [op |-> "store", notified |-> FALSE]
  /\ UNCHANGED <<tree, settings, observers, timers, t, sinceNotify, hostBudget,
                 passMutations, passesInRow, stormNotifs, stormRuns, markedLexed,
                 pureVars>>

InitCallbackObserverFirst ==
  /\ loadQueue # <<>> /\ Head(loadQueue).cb = "init"
  /\ settings' = LoadedSettings(Head(loadQueue).res)
  /\ loadQueue' = Tail(loadQueue)
  /\ ScanPass("init", settings', TRUE, timers, stormRuns, TRUE)
  /\ observers' = observers + 1
  /\ UNCHANGED <<store, hostBudget, storeBudget, pureVars>>
\* the callback loadSettings was given by init(): processDocument, then
\* setupMutationObserver
InitCallback ==
  /\ loadQueue # <<>> /\ Head(loadQueue).cb = "init"
  /\ settings' = LoadedSettings(Head(loadQueue).res)
  /\ loadQueue' = Tail(loadQueue)
  /\ ScanPass("init", settings', FALSE, timers, stormRuns, TRUE)
  /\ observers' = observers + 1
  /\ UNCHANGED <<store, hostBudget, storeBudget, pureVars>>

\* the callback loadSettings was given by the onChanged listener
ReloadCallback ==
  /\ loadQueue # <<>> /\ Head(loadQueue).cb = "reload"
  /\ settings' = LoadedSettings(Head(loadQueue).res)
  /\ loadQueue' = Tail(loadQueue)
  /\ ScanPass("reload", settings', observers > 0, timers, stormRuns,
              settings' # settings \/ passesInRow = 0)
  /\ UNCHANGED <<store, observers, hostBudget, storeBudget, pureVars>>

\* a due timer runs the debounced processDocument(document.body)
TimerFire ==
  \E tm \in timers :
    /\ tm.left = 0
    /\ ScanPass("fire", settings, observers > 0, timers \ {tm}, stormRuns + 1,
                passesInRow = 0)
    /\ UNCHANGED <<settings, store, loadQueue, observers, hostBudget, storeBudget,
                   pureVars>>

\* time passes; a due timer may run late, never early
Tick ==
  /\ (\E tm \in timers : tm.left > 0) \/ sinceNotify < Wait
  /\ \E d \in TickSteps :
       /\ timers' = {[id |-> tm.id, left |-> Max(tm.left - d, 0)] : tm \in timers}
       /\ sinceNotify' = Min(sinceNotify + d, Wait)
  /\ last' = [op |-> "tick", notified |-> FALSE]
  /\ UNCHANGED <<tree, settings, store, loadQueue, observers, t, hostBudget,
                 storeBudget, passMutations, passesInRow, stormNotifs, stormRuns,
                 markedLexed, pureVars>>

Next ==
  \/ HostInsert
  \/ HostRemove
  \/ HostClone
  \/ HostMove
  \/ StorageChanged
  \/ InitCallback
  \/ ReloadCallback
  \/ TimerFire
  \/ Tick

Spec == Init /\ [][Next]_vars

\* timers that are due run, time passes while something waits for it, and the
\* storage reads call back
Fairness ==
  /\ WF_vars(TimerFire) /\ WF_vars(Tick)
  /\ WF_vars(InitCallback) /\ WF_vars(ReloadCallback)

LiveSpec == Init /\ [][Next]_vars /\ Fairness

-----------------------------------------------------------------------------
\* SpecFail: the content script on a page whose tree can make a pass throw

\* processDocument when the walk or the replaceChild call throws at the text
\* node after the first k: what was done for the first k stays done
ThrowingPass(root, s, k) ==
  The({ProcessAll(root, SubSeq(textNodes, 1, k), s, [mutations |-> 0, marked |-> 0]) :
         textNodes \in {CollectTextNodes(root)}})

\* the places a pass over root can throw at
ThrowPoints(root) == 0..Max(Len(CollectTextNodes(root)) - 1, 0)

\* a pass that throws; the op tells where the exception ended up
ThrowingScan(op, s, observed, pending, runs) ==
  /\ hostBudget > 0
  /\ hostBudget' = hostBudget - 1
  /\ \E k \in ThrowPoints(tree) :
       \E r \in {ThrowingPass(tree, s, k)} :
         PassDone(r, op, observed, pending, runs, TRUE)

\* init's callback when processDocument throws: the catch block logs the
\* error, then setupMutationObserver runs
InitCallbackThrows ==
  /\ loadQueue # <<>> /\ Head(loadQueue).cb = "init"
  /\ settings' = LoadedSettings(Head(loadQueue).res)
  /\ loadQueue' = Tail(loadQueue)
  /\ ThrowingScan("initCaught", settings', FALSE, timers, stormRuns)
  /\ observers' = observers + 1
  /\ UNCHANGED <<store, storeBudget, pureVars>>

\* the onChanged callback when processDocument throws: nothing catches the
\* exception, it leaves the callback
ReloadCallbackThrows ==
  /\ loadQueue # <<>> /\ Head(loadQueue).cb = "reload"
  /\ settings' = LoadedSettings(Head(loadQueue).res)
  /\ loadQueue' = Tail(loadQueue)
  /\ ThrowingScan("reloadUncaught", settings', observers > 0, timers, stormRuns)
  /\ UNCHANGED <<store, observers, storeBudget, pureVars>>

\* the timer callback when processDocument throws: nothing catches the
\* exception, it leaves the callback
TimerFireThrows ==
  \E tm \in timers :
    /\ tm.left = 0
    /\ ThrowingScan("fireUncaught", settings, observers > 0, timers \ {tm},
                    stormRuns + 1)
    /\ UNCHANGED <<settings, store, loadQueue, observers, storeBudget, pureVars>>

FailNext ==
  \/ Next
  \/ InitCallbackThrows
  \/ ReloadCallbackThrows
  \/ TimerFireThrows

SpecFail == Init /\ [][FailNext]_vars

\* C16: when the tree makes a pass throw, in the initial pass, a debounced
\* rescan or a config-triggered pass, the exception is caught within that pass
\* (none leaves its callback uncaught), and the engine stays operational: once
\* the initial load has called back the observer is installed, so that a later
\* notification schedules a rescan.
C16_FailuresContained ==
  /\ last.op \notin {"reloadUncaught", "fireUncaught"}
  /\ (\A i \in 1..Len(loadQueue) : loadQueue[i].cb # "init") => observers = 1
  /\ last.notified => timers # {}

-----------------------------------------------------------------------------
\* Properties of the document model (checked under Spec and LiveSpec)

\* C1: a scan pass that follows another with no host mutation and no change
\* of the settings in between performs no tree mutation.
C1_SecondPassIdle == passesInRow >= 2 => passMutations = 0

\* C2: with the observer installed, the cycle engine mutation -> notification
\* -> debounced rescan -> engine mutation ends: from some point on no rescan is
\* pending (and so no pass mutates the tree any more).
C2_LoopTerminates == <>[](timers = {})

IsMtWrapper(root, p) == NodeAt(root, p).class = "mt-wrapper"
WrapperPaths(root) == {p \in AllPaths(root) : IsMtWrapper(root, p)}
AnnotationsIn(node) ==
  {i \in 1..Len(node.children) : node.children[i].class = "mt-annotation"}
\* the elements above the node at p that bear data-mt-processed
MarkersAbove(root, p) ==
  {k \in 0..(Len(p) - 1) : NodeAt(root, Prefix(p, k)).processed}

\* C3: whatever passes (initial, debounced, config-triggered) and host
\* insertions, moves, clones and removals have happened, no wrapper holds more
\* than one annotation or lies inside another wrapper, no text leaf has more
\* than one marked ancestor, and no pass lexed or replaced a text leaf that has
\* an ancestor bearing data-mt-processed.
C3_NoDoubleAnnotation ==
  /\ markedLexed = 0
  /\ \A p \in WrapperPaths(tree) :
       /\ Cardinality(AnnotationsIn(NodeAt(tree, p))) <= 1
       /\ MarkersAbove(tree, p) = {}
  /\ \A p \in AllPaths(tree) :
       IsText(NodeAt(tree, p)) => Cardinality(MarkersAbove(tree, p)) <= 1

\* the host has copied or moved annotated content (two wrappers where the
\* page started with at most one convertible mention per text) and a debounced
\* rescan ran over the result
C3_Witness ==
  /\ last.op = "fire"
  /\ hostBudget < MaxHostOps
  /\ Cardinality(WrapperPaths(tree)) >= 2
  /\ \E p \in WrapperPaths(tree) : Len(p) >= 2

\* C4: the notifications of a storm (each less than Wait after the one before)
\* lead to one execution of the rescan, not one each: none runs while the
\* storm's timer is pending, and once that timer is gone exactly one has run.
C4_StormCollapses ==
  /\ stormRuns <= 1
  /\ timers # {} => stormRuns = 0
  /\ (stormNotifs >= 1 /\ timers = {}) => stormRuns = 1

\* a storm of three notifications has been answered by its one rescan
C4_Witness == stormNotifs >= 3 /\ timers = {} /\ stormRuns = 1

\* at most one timer is pending; right after a notification the only pending
\* timer is the one just started, with the full wait ahead of it; a timer that
\* is due was started at least Wait ago and nothing was notified since
DebounceState ==
  /\ Cardinality(timers) <= 1
  /\ last.notified => timers = {[id |-> t, left |-> Wait]}
  /\ \A tm \in timers : tm.left = 0 => sinceNotify >= Wait

\* a debounced rescan runs at least Wait after the latest notification, and
\* runs to its end: the step that starts the pass leaves its whole result
DebounceStep ==
  last'.op = "fire" =>
    /\ sinceNotify >= Wait
    /\ tree' = processDocument(tree, settings).tree

\* C5: trailing-edge debounce with supersession: at most one rescan timer is
\* pending at any moment, a notification cancels the pending timer and starts
\* a fresh one, a debounced rescan executes no sooner than Wait after the most
\* recent notification, and a pass, once started, is not cancelled.
C5_TrailingEdge == []DebounceState /\ [][DebounceStep]_vars

\* a notification has superseded a pending timer, and the rescan ran after it
C5_Witness == last.op = "fire" /\ stormNotifs >= 2 /\ stormRuns = 1 /\ hostBudget = 0

\* a loaded number: the stored one when it is a number above zero, or else
\* the default
StoredOrDefault(loaded, stored, default) ==
  IF stored.d # 0 /\ stored.n > 0 THEN loaded = stored ELSE loaded = RInt(default)

\* the work schedule in the settings s is what a load of the stored values v
\* must give
ScheduleFrom(s, v) ==
  /\ StoredOrDefault(s.hourlyRate, v.hourlyRate, DefaultHourlyRate)
  /\ StoredOrDefault(s.hoursPerDay, v.hoursPerDay, DefaultHoursPerDay)
  /\ StoredOrDefault(s.daysPerWeek, v.daysPerWeek, DefaultDaysPerWeek)

PassOps == {"init", "reload", "fire"}

\* C14: in every state, and so whenever a pass runs, hourlyRate, hoursPerDay
\* and daysPerWeek are numbers above zero; once the loads that were asked for
\* have completed each of them is the stored value when that is a number above
\* zero and its default (15, 8, 5) when the stored value is missing, zero,
\* negative or not a number.
C14_SchedulePositive ==
  /\ \A x \in {settings.hourlyRate, settings.hoursPerDay, settings.daysPerWeek} :
       x.d > 0 /\ x.n > 0
  /\ loadQueue = <<>> => ScheduleFrom(settings, store)

\* a config-triggered pass ran after a store with a zero rate, a valid
\* hoursPerDay and no daysPerWeek was loaded
C14_Witness ==
  /\ last.op = "reload" /\ loadQueue = <<>>
  /\ store.hourlyRate = RInt(0) /\ store.daysPerWeek = Missing
  /\ settings.hoursPerDay = Rat(1, 2)
  /\ settings.hourlyRate = RInt(15) /\ settings.daysPerWeek = RInt(5)

\* C15: after every load displayMode is inline, tooltip or replace, and every
\* wrapper a pass has made shows its mention in one of the three ways (it is
\* never left without content).
C15_DisplayModeValid ==
  /\ settings.displayMode \in {"inline", "tooltip", "replace"}
  /\ \A p \in WrapperPaths(tree) : NodeAt(tree, p).children # <<>>

\* s is what a load of the stored values v gives, all fields at once
IsSnapshotOf(s, v) ==
  /\ ScheduleFrom(s, v)
  /\ s.displayMode = (IF v.displayMode = "" THEN "inline" ELSE v.displayMode)

\* the settings are the defaults or come, all fields, from one stored state
WholeSettings == settings = DEFAULT \/ \E v \in StoreValues : IsSnapshotOf(settings, v)

\* a notification queues exactly one load; a load is answered by replacing
\* all fields from what was read and running one full scan with the result;
\* nothing else queues a load or changes the settings
ReloadStep ==
  /\ last'.op = "store" =>
       loadQueue' = Append(loadQueue, [res |-> store', cb |-> "reload"])
  /\ last'.op = "reload" =>
       /\ loadQueue # <<>> /\ loadQueue' = Tail(loadQueue)
       /\ IsSnapshotOf(settings', Head(loadQueue).res)
       /\ tree' = processDocument(tree, settings').tree
  /\ last'.op \notin {"store", "init", "reload"} =>
       UNCHANGED <<loadQueue, settings, store>>

\* C18: every config-change notification is answered by one load that replaces
\* all settings fields in one step from the stored values and by exactly one
\* full scan that runs with these settings; no pass sees settings that mix
\* fields of two stored states.
C18_HotReload == []WholeSettings /\ [][ReloadStep]_vars

\* a config-triggered pass annotated, in the new display mode, a mention the
\* page had added
C18_Witness ==
  /\ last.op = "reload" /\ settings.displayMode = "tooltip"
  /\ settings.hourlyRate = RInt(40)
  /\ \E p \in WrapperPaths(tree) : NodeAt(tree, p).title # <<>>
  /\ \E p \in WrapperPaths(tree) : NodeAt(tree, p).title = <<>>

-----------------------------------------------------------------------------
\* SpecFmt: formatTimeFromMoney applied to bounded inputs

\* amounts k / AmountDen for k in 1..MaxAmountK, and a few larger ones
MaxAmountK == 12
AmountDen == 4
FmtAmounts ==
  {Rat(k, AmountDen) : k \in 0..MaxAmountK}
    \cup {RInt(5), RInt(100), RInt(1000), Rat(4999, 100), RInt(31200), RInt(1200000)}
FmtRates == {RInt(15), RInt(1), Rat(15, 2), RInt(40)}
FmtHoursPerDay == {RInt(8), Rat(733, 100), Rat(1, 2), Rat(1, 100)}
FmtDaysPerWeek == {RInt(5), RInt(1), Rat(1, 2)}


FmtInit ==
  /\ call \in [amount : FmtAmounts, hourlyRate : FmtRates,
               hoursPerDay : FmtHoursPerDay, daysPerWeek : FmtDaysPerWeek]
  /\ ret = Pending
  /\ DomIdle

CallSettings(c) ==
  [DEFAULT EXCEPT !.hourlyRate = c.hourlyRate, !.hoursPerDay = c.hoursPerDay,
                  !.daysPerWeek = c.daysPerWeek]

FmtCall ==
  /\ ~ret.done
  /\ ret' = [done |-> TRUE, str |-> formatTimeFromMoney(call.amount, call.hourlyRate, CallSettings(call)),
             parts |-> IF InvalidArgs(call.amount, call.hourlyRate) THEN <<>>
                       ELSE EmittedParts(call.amount, call.hourlyRate, CallSettings(call)),
             matches |-> <<>>, frag |-> <<>>]
  /\ UNCHANGED <<call, domVars>>

FmtNext == FmtCall

SpecFmt == FmtInit /\ [][FmtNext]_vars

FmtDone == ret.done

-----------------------------------------------------------------------------
\* SpecText: buildAnnotatedFragment applied to bounded texts

\* texts are concatenations of at most MaxTokens tokens, and the scenarios
MaxTokens == 3
TextTokens ==
  { <<"$">>, <<"£">>, <<"5">>, <<"0">>, <<"1", ".", "2">>, <<" ">>, <<"m">>,
    <<"k">>, <<"U", "S", "D">>, <<"n", "o", "w">>, <<".">> }

RECURSIVE TokenTexts(_)
TokenTexts(k) ==
  IF k = 0 THEN {<<>>}
  ELSE LET shorter == TokenTexts(k - 1) IN
       shorter \cup {tx \o tok : tx \in shorter, tok \in TextTokens}

PayFiveNow == <<"P", "a", "y", " ", "$", "5", " ", "n", "o", "w">>
BonusText == <<"£", "1", ".", "2", "m", " ", "b", "o", "n", "u", "s">>
ScenarioTexts ==
  { PayFiveNow, BonusText,
    <<"5", " ", "U", "S", "D", " ", "n", "o", "w">>,
    <<"$", "5", " ", "k", " ", "n", "o", "w">>,
    <<"$", "5", " ", " ", "n", "o", "w">>,
    <<"$", "5", " ", "$", "0", " ", "5", " ", "U", "S", "D">>,
    <<"£", "1", ".", "2", " ", "m", " ", "b", "o", "n", "u", "s">> }

TextInputs == TokenTexts(MaxTokens) \cup ScenarioTexts
TextModes == {"inline", "tooltip", "replace"}

TextInit ==
  /\ call \in [text : TextInputs, displayMode : TextModes]
  /\ ret = Pending
  /\ DomIdle

TextSettings(c) == [DEFAULT EXCEPT !.displayMode = c.displayMode]

TextResult(text, frag) ==
  [done |-> TRUE, str |-> TextContentOfList(frag), parts |-> <<>>,
   matches |-> AllMatches(text, 1), frag |-> frag]

TextCall ==
  /\ ~ret.done
  /\ \E frag \in {buildAnnotatedFragment(call.text, TextSettings(call))} :
       ret' = TextResult(call.text, frag)
  /\ UNCHANGED <<call, domVars>>

TextNext == TextCall

SpecText == TextInit /\ [][TextNext]_vars

-----------------------------------------------------------------------------
\* SpecPrice: the content script whose processDocument also runs the price
\* adapter, on pages with composite prices, opted-out regions and non-content
\* containers; the page itself does not change

Span(class, str) == WithTextContent(Element("SPAN", class, <<>>), str)
Price(children) == Element("SPAN", "a-price", children)
Ignored(el) == [el EXCEPT !.ignore = TRUE]

PriceTrees ==
  { Body(<<Price(<<Span("a-offscreen", Dollar5)>>)>>),
    Body(<<Price(<<Span("a-price-symbol", <<"$">>), Span("a-price-whole", <<"4", "9">>),
                   Span("a-price-fraction", <<"9", "9">>)>>)>>),
    Body(<<Price(<<Span("a-price-symbol", <<"$">>),
                   Span("a-price-fraction", <<"9", "9">>)>>)>>),
    Body(<<Price(<<Span("a-price-symbol", <<"$">>), Span("a-price-whole", <<>>),
                   Span("a-price-fraction", <<"9", "9">>)>>)>>),
    Body(<<Price(<<Span("a-offscreen", <<" ">>), Span("a-price-whole", <<"5">>)>>)>>),
    Body(<<Price(<<Span("a-offscreen", Hello)>>)>>),
    Body(<<TextNode(Dollar5),
           Price(<<Span("a-offscreen", <<"$", "1", ",", "2", "3", "4", ".", "5">>)>>)>>),
    Body(<<Price(<<Price(<<Span("a-price-whole", <<"5">>)>>)>>)>>),
    Body(<<Ignored(Element("DIV", "", <<Price(<<Span("a-offscreen", Dollar5)>>)>>))>>),
    Body(<<Ignored(Element("DIV", "", <<Element("P", "", <<TextNode(Dollar5)>>)>>)),
           TextNode(Dollar5)>>),
    Body(<<Element("PRE", "", <<Element("SPAN", "", <<TextNode(Dollar5)>>)>>)>>),
    Body(<<Element("CODE", "", <<TextNode(Dollar5)>>), TextNode(<<" ">>),
           Element("P", "", <<TextNode(<<" ", "$", "5">>)>>)>>),
    Body(<<TextNode(Dollar0)>>),
    Body(<<TextNode(Hello), Element("P", "", <<TextNode(<<"$", "5", " ", "$", "0">>)>>)>>) }

\* what the latest pass started from, and what it did
PassInput(root, s) == [before |-> root, settings |-> s]
PassOutput(r) == [replaced |-> r.replaced, prices |-> r.prices]

PriceInit ==
  /\ tree \in PriceTrees
  /\ settings = DEFAULT
  /\ store \in StoreValues
  /\ loadQueue = <<[res |-> store, cb |-> "init"]>>
  /\ observers = 0 /\ timers = {} /\ t = 0
  /\ sinceNotify = Wait
  /\ hostBudget = 0 /\ storeBudget = MaxStoreChanges
  /\ last = [op |-> "start", notified |-> FALSE]
  /\ passMutations = 0 /\ passesInRow = 0 /\ stormNotifs = 0 /\ stormRuns = 0
  /\ markedLexed = 0
  /\ call = PassInput(tree, settings)
  /\ ret = [replaced |-> 0, prices |-> <<>>]

PricePass(op, s, observed, pending, runs, fresh) ==
  \E r \in {processDocumentWithPrices(tree, s)} :
    /\ PassDone(r, op, observed, pending, runs, fresh)
    /\ call' = PassInput(tree, s)
    /\ ret' = PassOutput(r)

PriceInitCallback ==
  /\ loadQueue # <<>> /\ Head(loadQueue).cb = "init"
  /\ settings' = LoadedSettings(Head(loadQueue).res)
  /\ loadQueue' = Tail(loadQueue)
  /\ PricePass("init", settings', FALSE, timers, stormRuns, TRUE)
  /\ observers' = observers + 1
  /\ UNCHANGED <<store, hostBudget, storeBudget>>

PriceReloadCallback ==
  /\ loadQueue # <<>> /\ Head(loadQueue).cb = "reload"
  /\ settings' = LoadedSettings(Head(loadQueue).res)
  /\ loadQueue' = Tail(loadQueue)
  /\ PricePass("reload", settings', observers > 0, timers, stormRuns,
               settings' # settings \/ passesInRow = 0)
  /\ UNCHANGED <<store, observers, hostBudget, storeBudget>>

PriceTimerFire ==
  \E tm \in timers :
    /\ tm.left = 0
    /\ PricePass("fire", settings, observers > 0, timers \ {tm}, stormRuns + 1,
                 passesInRow = 0)
    /\ UNCHANGED <<settings, store, loadQueue, observers, hostBudget, storeBudget>>

PriceNext ==
  \/ StorageChanged
  \/ PriceInitCallback
  \/ PriceReloadCallback
  \/ PriceTimerFire
  \/ Tick

SpecPrice == PriceInit /\ [][PriceNext]_vars

-----------------------------------------------------------------------------
\* Properties of formatTimeFromMoney (checked under SpecFmt)

RECURSIVE SumParts(_)
SumParts(parts) ==
  IF parts = <<>> THEN RInt(0)
  ELSE RAdd(RMul(RInt(parts[1].count), parts[1].minutes), SumParts(Tail(parts)))

\* the minutes-per-unit of the smallest emitted unit
SmallestEmitted(parts) ==
  LET i == CHOOSE k \in 1..Len(parts) :
             \A j \in 1..Len(parts) : RLe(parts[k].minutes, parts[j].minutes)
  IN parts[i].minutes

TrueTotal(c) == RMul(RDiv(c.amount, c.hourlyRate), RInt(60))
Emitted == ret.done /\ ret.parts # <<>>

\* C6: for positive amount, rate and schedule the emitted units number at most
\* 3 and their minutes-per-unit values strictly descend in emission order.
C6_DescendingAtMostThree ==
  (ret.done /\ RPos(call.amount)) =>
    /\ Len(ret.parts) <= 3
    /\ \A i \in 1..(Len(ret.parts) - 1) :
         RLt(ret.parts[i + 1].minutes, ret.parts[i].minutes)

\* three units emitted under a schedule whose work day is shorter than an hour
\* (the table is then non-monotone: day < hour)
C6_Witness ==
  /\ ret.done
  /\ Len(ret.parts) = 3
  /\ RLt(RMul(call.hoursPerDay, RInt(60)), RInt(60))

\* C7 (as claimed): whenever a unit is emitted, the emitted sum is <= the true
\* total minutes and the difference is < the smallest emitted unit's minutes.
C7_TruncationBoundClaimed ==
  Emitted =>
    /\ RLe(SumParts(ret.parts), TrueTotal(call))
    /\ RLt(RSub(TrueTotal(call), SumParts(ret.parts)), SmallestEmitted(ret.parts))

\* C7 (amended): the emitted sum is <= the true total minutes; the difference
\* is < the smallest emitted unit's minutes plus one, and < that unit's minutes
\* itself when every emitted unit's minutes-per-unit value is a whole number.
C7_TruncationBound ==
  Emitted =>
    /\ RLe(SumParts(ret.parts), TrueTotal(call))
    /\ RLt(RSub(TrueTotal(call), SumParts(ret.parts)),
           RAdd(SmallestEmitted(ret.parts), RInt(1)))
    /\ (\A i \in 1..Len(ret.parts) : RIsInt(ret.parts[i].minutes)) =>
         RLt(RSub(TrueTotal(call), SumParts(ret.parts)), SmallestEmitted(ret.parts))

\* units emitted, a fractional minute dropped by the floor and a remainder
\* left over by the decomposition
C7_Witness ==
  /\ Emitted
  /\ ~RIsInt(TrueTotal(call))
  /\ RLt(SumParts(ret.parts), RInt(RFloor(TrueTotal(call))))

Scenario1000 ==
  [amount |-> RInt(1000), hourlyRate |-> RInt(15),
   hoursPerDay |-> RInt(8), daysPerWeek |-> RInt(5)]

ScenarioParts ==
  /\ Len(ret.parts) = 3
  /\ ret.parts[1].count = 1 /\ ret.parts[1].minutes = RInt(2400)
  /\ ret.parts[2].count = 3 /\ ret.parts[2].minutes = RInt(480)
  /\ ret.parts[3].count = 2 /\ ret.parts[3].minutes = RInt(60)

\* C8 (as claimed): amount 1000 at rate 15 with an 8 h day and a 5 day week is
\* 4000 minutes and formats as exactly "1w3d2h".
C8_ScenarioClaimed ==
  (ret.done /\ call = Scenario1000) =>
    /\ totalMinutes(call.amount, call.hourlyRate) = RInt(4000)
    /\ ScenarioParts
    /\ ret.str = <<"1", "w", "3", "d", "2", "h">>

\* C8 (amended): the same decomposition (1 week of 2400, 3 days of 480, 2 hours
\* of 60, 40 minutes dropped), returned as "1w 3d 2h": the parts are joined by
\* single spaces.
C8_Scenario ==
  (ret.done /\ call = Scenario1000) =>
    /\ totalMinutes(call.amount, call.hourlyRate) = RInt(4000)
    /\ ScenarioParts
    /\ RSub(RInt(4000), SumParts(ret.parts)) = RInt(40)
    /\ ret.str = <<"1", "w", " ", "3", "d", " ", "2", "h">>

C8_Witness == ret.done /\ call = Scenario1000 /\ ret.str # NULL

-----------------------------------------------------------------------------
\* Properties of buildAnnotatedFragment (checked under SpecText)

IsWrapper(node) == node.kind = "element" /\ node.class = "mt-wrapper"

RECURSIVE LeadingSpaces(_)
LeadingSpaces(str) ==
  IF str # <<>> /\ IsSpace(Head(str)) THEN 1 + LeadingSpaces(Tail(str)) ELSE 0

RECURSIVE TrailingSpaces(_)
TrailingSpaces(str) ==
  IF str # <<>> /\ IsSpace(str[Len(str)])
  THEN 1 + TrailingSpaces(SubSeq(str, 1, Len(str) - 1)) ELSE 0

\* the inline wrapper at frag[j]: one space between the money text and "("
\* (white space the matched text itself ends in counts as that separation, and
\* then none is added), and exactly one between ")" and the text that follows
OneSpaceEachSide(frag, j) ==
  LET money == TextContent(frag[j].children[1])
      ann == TextContent(frag[j].children[2])
      rest == TextContentOfList(SubSeq(frag, j + 1, Len(frag)))
  IN /\ LeadingSpaces(ann) = (IF TrailingSpaces(money) = 0 THEN 1 ELSE 0)
     /\ rest # <<>> => TrailingSpaces(ann) + LeadingSpaces(rest) = 1

\* C9: "Pay $5 now" in inline mode at rate 15 reads "Pay $5 (20min) now"; in
\* inline mode every parenthesized duration is separated from the money text
\* before it and from the text after it by exactly one space, with no doubled
\* space when the matched text already ends in white space.
C9_InlineSpacing ==
  (ret.done /\ call.displayMode = "inline") =>
    /\ call.text = PayFiveNow =>
         ret.str = <<"P", "a", "y", " ", "$", "5", " ", "(", "2", "0", "m", "i", "n", ")", " ", "n", "o", "w">>
    /\ \A j \in 1..Len(ret.frag) :
         IsWrapper(ret.frag[j]) => OneSpaceEachSide(ret.frag, j)

\* the scale factors of the claim, as exponents of ten
ClaimedFactor(word) ==
  CASE word \in {<<"k">>, <<"t", "h", "o", "u", "s", "a", "n", "d">>} -> 3
    [] word \in {<<"m">>, <<"m", "n">>, <<"m", "i", "l", "l", "i", "o", "n">>} -> 6
    [] word \in {<<"b">>, <<"b", "n">>, <<"b", "i", "l", "l", "i", "o", "n">>} -> 9
    [] word \in {<<"t">>, <<"t", "n">>, <<"t", "r", "i", "l", "l", "i", "o", "n">>} -> 12
    [] OTHER -> 0

RECURSIVE LetterRunEnd(_, _)
LetterRunEnd(text, p) ==
  IF At(text, p) \in Range(UpperChars) \cup Range(LowerChars)
  THEN LetterRunEnd(text, p + 1) ELSE p

\* the word that follows the number of a mention (after optional white space),
\* in lower case
WordAfterNumber(text, numEnd) ==
  LET from == SkipSpace(text, numEnd)
      word == Slice(text, from, LetterRunEnd(text, from))
  IN [i \in 1..Len(word) |-> ToLower(word[i])]

\* C10: the amount of a mention with a scale suffix is number x factor (1 when
\* there is none); for "£1.2m bonus" the amount is 1,200,000, the annotated
\* span is exactly "£1.2m" and " bonus" stays a plain text segment.
C10_ScaleSuffix ==
  ret.done =>
    /\ \A i \in 1..Len(ret.matches) :
         LET m == ret.matches[i] IN
         amountFromMatch(m) =
           RMul(parseFloat(StripCommas(m.num)),
                RInt(Pow10(ClaimedFactor(WordAfterNumber(call.text, m.numEnd)))))
    /\ call.text = BonusText =>
         /\ Len(ret.matches) = 1
         /\ amountFromMatch(ret.matches[1]) = RInt(1200000)
         /\ Slice(call.text, ret.matches[1].index, ret.matches[1].end)
              = <<"£", "1", ".", "2", "m">>
         /\ Len(ret.frag) = 2
         /\ IsWrapper(ret.frag[1])
         /\ ret.frag[2] = TextNode(<<" ", "b", "o", "n", "u", "s">>)

\* C11: the match spans [index, end) of the sequential scan lie within the
\* text, each is non-empty, and each starts at or after the end of the one
\* before it (so they are pairwise disjoint and sorted by start); the fragment
\* built from them in tooltip mode, where nothing is added to the text, reads
\* exactly as the text did.
C11_NonOverlap ==
  ret.done =>
    /\ \A i \in 1..Len(ret.matches) :
         /\ 1 <= ret.matches[i].index
         /\ ret.matches[i].index < ret.matches[i].end
         /\ ret.matches[i].end <= Len(call.text) + 1
         /\ i > 1 => ret.matches[i - 1].end <= ret.matches[i].index
    /\ call.displayMode = "tooltip" => ret.str = call.text

\* a text with three mentions, one of them right after another's end
C11_Witness ==
  /\ ret.done /\ Len(ret.matches) >= 3
  /\ \E i \in 2..Len(ret.matches) : ret.matches[i - 1].end = ret.matches[i].index

-----------------------------------------------------------------------------
\* Properties of the scan pass with the price adapter (checked under SpecPrice)

\* the child lists of the elements that satisfy Test, in document order
ContentWhere(root, Test(_)) ==
  LET paths == SelectSeq(DocOrder(root, <<>>), LAMBDA p : Test(NodeAt(root, p)))
  IN [i \in 1..Len(paths) |-> NodeAt(root, paths[i]).children]

BearsIgnore(node) == node.ignore
IsSkipped(node) == node.tag \in SKIP_TAGS

\* C12: a pass, text-node path and structured-price path together, leaves
\* everything below an element bearing data-mt-ignore as it was: nothing
\* there is replaced, annotated or marked.
C12_IgnoreOptOut ==
  ContentWhere(tree, BearsIgnore) = ContentWhere(call.before, BearsIgnore)

\* C13: a pass leaves everything below a SCRIPT, STYLE, NOSCRIPT, IFRAME, CODE,
\* PRE, TEXTAREA or INPUT element as it was, at whatever depth, and replaces no
\* empty or white-space-only text leaf.
C13_NonContentExcluded ==
  /\ ContentWhere(tree, IsSkipped) = ContentWhere(call.before, IsSkipped)
  /\ \A p \in AllPaths(call.before) :
       (IsText(NodeAt(call.before, p)) /\ IsBlank(NodeAt(call.before, p).value))
         => ~processTextNode(call.before, p, call.settings).replaced

\* C17: a pass that leaves the document exactly as it was (no match produced
\* an annotation) has called replaceChild for no text leaf, and so has raised
\* no mutation notification.
C17_NoOpWhenIdentical == tree = call.before => ret.replaced = 0

\* C19: a composite price element that the adapter examined (no processed
\* ancestor) and whose price string gave an amount above zero has got the
\* adapter's annotation and bears data-mt-processed; after any number of
\* passes, and whatever the text-node path did below it, it holds at most one
\* annotation appended by the adapter.
C19_MarksOnce ==
  \A i \in 1..Len(ret.prices) :
    /\ Cardinality(AnnotationsIn(NodeAt(tree, ret.prices[i].path))) <= 1
    /\ (ret.prices[i].examined /\ ret.prices[i].amount.d # 0
          /\ ret.prices[i].amount.n > 0)
         => (ret.prices[i].appended /\ NodeAt(tree, ret.prices[i].path).processed)

FortyNineNinetyNine == <<"$", "4", "9", "9", "9">>

\* the element of the price record pr has the parts symbol, whole, fraction
HasParts(pr, symbol, whole, fraction) ==
  /\ SelectedText(tree, pr.path, "a-price-symbol") = symbol
  /\ SelectedText(tree, pr.path, "a-price-whole") = whole
  /\ SelectedText(tree, pr.path, "a-price-fraction") = fraction

LastChild(el) == el.children[Len(el.children)]

\* what the claim says of the element of the price record pr, which has no
\* .a-offscreen node
FallbackAsClaimed(pr) ==
  /\ HasParts(pr, <<"$">>, <<"4", "9">>, <<"9", "9">>) =>
       /\ pr.priceText = FortyNineNinetyNine
       /\ pr.amount = RInt(4999)
       /\ pr.appended /\ NodeAt(tree, pr.path).processed
       /\ LastChild(NodeAt(tree, pr.path))
            = PriceAnnotation(formatTimeFromMoney(RInt(4999), settings.hourlyRate, settings))
  /\ SelectedText(tree, pr.path, "a-price-whole") = <<>> =>
       /\ ~pr.appended /\ ~NodeAt(tree, pr.path).processed
       /\ ret.replaced = 0 => NodeAt(tree, pr.path) = NodeAt(call.before, pr.path)

\* C20: for an element without .a-offscreen node and with the parts "$", "49",
\* "99" the adapter builds the string "$4999", passes the amount 4999 to the
\* formatter (not 49.99) and appends the annotation of that amount; with an
\* empty or absent whole part it leaves the element unchanged and unmarked.
C20_FallbackReconstruction ==
  \A i \in 1..Len(ret.prices) :
    (ret.prices[i].examined
       /\ DescendantsWithClass(tree, ret.prices[i].path, "a-offscreen") = <<>>)
      => FallbackAsClaimed(ret.prices[i])

\* the adapter has annotated the element with the parts "$", "49", "99":
\* 4999 at the rate 15 is 19996 minutes, one month, three weeks and four days
C20_Witness ==
  \E i \in 1..Len(ret.prices) :
    /\ ret.prices[i].priceText = FortyNineNinetyNine
    /\ ret.prices[i].appended
    /\ TextContent(LastChild(NodeAt(tree, ret.prices[i].path)))
         = <<" ", "(", "~", "1", "m", "o", " ", "3", "w", " ", "4", "d", ")">>

-----------------------------------------------------------------------------
\* SpecOptions: the options page (options.js).  The form fields hold a number
\* or NaN (empty or not numeric); the store holds the keys the page writes.

ToFixed6Exact(x) == x
\* Number(x.toFixed(6)): x rounded to six decimals, a tie away from zero
ToFixed6(x) ==
  Rat((IF x.n < 0 THEN -1 ELSE 1) * ((2 * Abs(x.n) * 1000000 + x.d) \div (2 * x.d)),
      1000000)

\* Number(field.value) || default
NumberOr(x, default) == IF IsFinite(x) /\ x.n # 0 THEN x ELSE default

\* the switch on itype
RateFor(itype, ivalue, hpd, hoursPerWeek) ==
  CASE itype = "hourly" -> ivalue
    [] itype = "daily" -> RDiv(ivalue, hpd)
    [] itype = "weekly" -> RDiv(ivalue, hoursPerWeek)
    [] itype = "monthly" -> RDiv(RMul(ivalue, RInt(12)), RMul(RInt(52), hoursPerWeek))
    [] itype = "yearly" -> RDiv(ivalue, RMul(RInt(52), hoursPerWeek))
    [] OTHER -> ivalue

\* the object given to chrome.storage.sync.set
SavedKeys(form, ivalue, dpw, hpd) ==
  [currencySymbol |-> IF form.currencySymbol = "" THEN "£" ELSE form.currencySymbol,
   incomeType |-> form.incomeType,
   incomeValue |-> ivalue,
   daysPerWeek |-> dpw,
   hoursPerDay |-> hpd,
   hourlyRate |-> ToFixed6(RateFor(form.incomeType, ivalue, hpd, RMul(dpw, hpd))),
   displayMode |-> form.displayMode]

\* what the click did: the status shown, whether the store was written, the
\* store before the click and the form as it was
Clicked(status, wrote, before, form) ==
  [status |-> status, wrote |-> wrote, before |-> before, form |-> form]

\* the click handler from the gathered values on
SaveWith(form, ivalue, dpw, hpd) ==
  IF ~RPos(ivalue)
  THEN /\ ret' = Clicked("Please enter a positive income amount.", FALSE, store, form)
       /\ UNCHANGED store
  ELSE IF ~RPos(RMul(dpw, hpd))
  THEN /\ ret' = Clicked("Please enter positive values for days per week and hours per day.",
                         FALSE, store, form)
       /\ UNCHANGED store
  ELSE /\ store' = SavedKeys(form, ivalue, dpw, hpd)
       /\ ret' = Clicked("Saved", TRUE, store, form)

OptionsIdle ==
  /\ tree = Body(<<>>) /\ settings = DEFAULT
  /\ observers = 0 /\ timers = {} /\ t = 0
  /\ sinceNotify = Wait /\ hostBudget = 0
  /\ passMutations = 0 /\ passesInRow = 0 /\ stormNotifs = 0 /\ stormRuns = 0
  /\ markedLexed = 0

optionsIdleVars ==
  <<tree, settings, observers, timers, t, sinceNotify, hostBudget, passMutations,
    passesInRow, stormNotifs, stormRuns, markedLexed>>

NothingStored ==
  [currencySymbol |-> "", incomeType |-> "", incomeValue |-> Missing,
   daysPerWeek |-> Missing, hoursPerDay |-> Missing, hourlyRate |-> Missing,
   displayMode |-> ""]

\* nothing saved yet, or only a rate and a schedule
OptionsStores ==
  { NothingStored,
    [NothingStored EXCEPT !.hourlyRate = RInt(40), !.daysPerWeek = RInt(3),
                          !.displayMode = "tooltip"] }

BlankForm ==
  [currencySymbol |-> "", incomeType |-> "hourly", incomeValue |-> NaN,
   daysPerWeek |-> NaN, hoursPerDay |-> NaN, displayMode |-> "inline"]

IncomeTypes == {"hourly", "daily", "weekly", "monthly", "yearly"}
IncomeValues == {NaN, RInt(0), RInt(-1), RInt(100), Rat(1, 2)}
DaysValues == {RInt(3), RInt(-1), NaN}
HoursValues == {RInt(3), RInt(-2)}

OptionsInit ==
  /\ store \in OptionsStores
  /\ loadQueue = <<[res |-> store, cb |-> "options"]>>
  /\ storeBudget = MaxStoreChanges
  /\ last = [op |-> "start", notified |-> FALSE]
  /\ call = BlankForm
  /\ ret = Clicked("", FALSE, store, call)
  /\ OptionsIdle

\* res.x && Number(res.x) > 0 ? res.x : default
ShownOr(x, default) == IF IsFinite(x) /\ RPos(x) THEN x ELSE RInt(default)

\* the callback of the page's storage read: the form shows what is stored
FormFrom(res) ==
  [currencySymbol |-> IF res.currencySymbol = "" THEN "£" ELSE res.currencySymbol,
   incomeType |-> IF res.incomeType # "" /\ IsFinite(res.incomeValue)
                  THEN res.incomeType ELSE "hourly",
   incomeValue |-> IF res.incomeType # "" /\ IsFinite(res.incomeValue)
                   THEN res.incomeValue
                   ELSE NumberOr(res.hourlyRate, RInt(DefaultHourlyRate)),
   daysPerWeek |-> ShownOr(res.daysPerWeek, DefaultDaysPerWeek),
   hoursPerDay |-> ShownOr(res.hoursPerDay, DefaultHoursPerDay),
   displayMode |-> IF res.displayMode = "" THEN "inline" ELSE res.displayMode]

OptionsLoaded ==
  /\ loadQueue # <<>> /\ Head(loadQueue).cb = "options"
  /\ call' = FormFrom(Head(loadQueue).res)
  /\ loadQueue' = Tail(loadQueue)
  /\ last' = [op |-> "loaded", notified |-> FALSE]
  /\ UNCHANGED <<store, storeBudget, ret, optionsIdleVars>>

\* the user changes fields of the form
Edited(form) ==
  /\ storeBudget > 0
  /\ call' = form
  /\ last' = [op |-> "edit", notified |-> FALSE]
  /\ UNCHANGED <<store, loadQueue, storeBudget, ret, optionsIdleVars>>

EditIncome ==
  \E ty \in IncomeTypes, v \in IncomeValues :
    Edited([call EXCEPT !.incomeType = ty, !.incomeValue = v])

EditSchedule ==
  \E d \in DaysValues, h \in HoursValues :
    Edited([call EXCEPT !.daysPerWeek = d, !.hoursPerDay = h])

\* the click handler of saveBtn; storeBudget bounds the clicks
SaveClick ==
  /\ storeBudget > 0
  /\ storeBudget' = storeBudget - 1
  /\ SaveWith(call, NumberOr(call.incomeValue, RInt(0)),
              NumberOr(call.daysPerWeek, RInt(DefaultDaysPerWeek)),
              NumberOr(call.hoursPerDay, RInt(DefaultHoursPerDay)))
  /\ last' = [op |-> "save", notified |-> FALSE]
  /\ UNCHANGED <<call, loadQueue, optionsIdleVars>>

OptionsNext ==
  \/ OptionsLoaded
  \/ EditIncome
  \/ EditSchedule
  \/ SaveClick

SpecOptions == OptionsInit /\ [][OptionsNext]_vars

\* the form saved with an income, days per week and hours per day above zero
PositiveForm(form) ==
  /\ IsFinite(form.incomeValue) /\ RPos(form.incomeValue)
  /\ IsFinite(form.daysPerWeek) /\ RPos(form.daysPerWeek)
  /\ IsFinite(form.hoursPerDay) /\ RPos(form.hoursPerDay)

\* v, v/h, v/(d*h), 12*v/(52*d*h), v/(52*d*h)
ClaimedRate(form) ==
  CASE form.incomeType = "hourly" -> form.incomeValue
    [] form.incomeType = "daily" -> RDiv(form.incomeValue, form.hoursPerDay)
    [] form.incomeType = "weekly" ->
         RDiv(form.incomeValue, RMul(form.daysPerWeek, form.hoursPerDay))
    [] form.incomeType = "monthly" ->
         RDiv(RMul(RInt(12), form.incomeValue),
              RMul(RInt(52), RMul(form.daysPerWeek, form.hoursPerDay)))
    [] form.incomeType = "yearly" ->
         RDiv(form.incomeValue,
              RMul(RInt(52), RMul(form.daysPerWeek, form.hoursPerDay)))

\* a click with an income that is not a number above zero writes nothing
NoWriteWithoutIncome ==
  (last.op = "save" /\ ~(IsFinite(ret.form.incomeValue) /\ RPos(ret.form.incomeValue)))
    => (~ret.wrote /\ store = ret.before)

\* C21 as stated: the persisted hourlyRate is exactly v, v/h, v/(d*h),
\* 12*v/(52*d*h) or v/(52*d*h); a Save with an income that is not a number
\* above zero writes nothing.
C21_ConversionClaimed ==
  /\ (ret.wrote /\ PositiveForm(ret.form)) => store.hourlyRate = ClaimedRate(ret.form)
  /\ NoWriteWithoutIncome

\* y is x to six decimals
IsRoundedTo6(y, x) ==
  /\ 1000000 % y.d = 0
  /\ \E k \in {y.n * (1000000 \div y.d)} :
       /\ 2 * (x.n * 1000000 - k * x.d) < x.d
       /\ 2 * (k * x.d - x.n * 1000000) <= x.d

\* C21: the persisted hourlyRate is v, v/h, v/(d*h), 12*v/(52*d*h) or
\* v/(52*d*h) rounded to six decimals; a Save with an income that is not a
\* number above zero writes nothing and leaves the stored settings as they
\* were.
C21_Conversion ==
  /\ (ret.wrote /\ PositiveForm(ret.form))
       => IsRoundedTo6(store.hourlyRate, ClaimedRate(ret.form))
  /\ NoWriteWithoutIncome

\* a daily income of 100 at 3 hours per day was saved as 33.333333
C21_Witness ==
  /\ ret.wrote /\ ret.form.incomeType = "daily" /\ ret.form.incomeValue = RInt(100)
  /\ store.hourlyRate = Rat(33333333, 1000000)

-----------------------------------------------------------------------------
\* Properties of the fragment (SpecText), continued

RECURSIVE SegmentsFrom(_, _, _, _)
\* the spans that tile the text in order: the unmatched text before each
\* match, the match itself, and the text after the last match
SegmentsFrom(text, matches, i, from) ==
  IF i > Len(matches)
  THEN IF from <= Len(text)
       THEN <<[kind |-> "gap", m |-> NoMatch, from |-> from, to |-> Len(text) + 1]>>
       ELSE <<>>
  ELSE (IF matches[i].index > from
        THEN <<[kind |-> "gap", m |-> NoMatch, from |-> from, to |-> matches[i].index]>>
        ELSE <<>>)
       \o <<[kind |-> "match", m |-> matches[i], from |-> matches[i].index,
             to |-> matches[i].end]>>
       \o SegmentsFrom(text, matches, i + 1, matches[i].end)

Segments == SegmentsFrom(call.text, ret.matches, 1, 1)
SegmentText(seg) == Slice(call.text, seg.from, seg.to)

\* the formatter gives a time string for the match
Convertible(m, s) == formatTimeFromMoney(amountFromMatch(m), s.hourlyRate, s) # NULL
NonConvertible(seg) == seg.kind = "match" /\ ~Convertible(seg.m, TextSettings(call))

\* the node holds the text of the span seg: as a text node, or as the money
\* text of a wrapper
HoldsSpan(node, seg) ==
  IF IsText(node) THEN node.value = SegmentText(seg)
  ELSE call.displayMode = "replace" \/ node.children[1] = TextNode(SegmentText(seg))

\* C22: a match the formatter returns null for is emitted as a plain text
\* node of the matched text, with no wrapper and no marker, and the span is
\* consumed once: the next node of the fragment holds the span that starts
\* where the match ends.
C22_NonConvertiblePlain ==
  ret.done =>
    \E segs \in {Segments} :
      /\ Len(ret.frag) = Len(segs)
      /\ \A j \in 1..Len(segs) :
           NonConvertible(segs[j]) =>
             /\ ret.frag[j] = TextNode(SegmentText(segs[j]))
             /\ j < Len(segs) =>
                  /\ segs[j + 1].from = segs[j].to
                  /\ HoldsSpan(ret.frag[j + 1], segs[j + 1])

DollarZeroBetween == <<"$", "5", " ", "$", "0", " ", "5", " ", "U", "S", "D">>

\* "$0 " between two convertible mentions stays a plain text node
C22_Witness ==
  /\ ret.done /\ call.text = DollarZeroBetween
  /\ Len(ret.frag) = 3
  /\ ret.frag[2] = TextNode(<<"$", "0", " ">>)
  /\ IsWrapper(ret.frag[1]) /\ IsWrapper(ret.frag[3])

RECURSIVE UndecoratedText(_)
\* the visible text without the annotation spans
UndecoratedText(nodes) ==
  IF nodes = <<>> THEN <<>>
  ELSE (IF IsText(Head(nodes)) THEN Head(nodes).value
        ELSE TextContentOfList(SelectSeq(Head(nodes).children,
                                         LAMBDA c : c.class # "mt-annotation")))
       \o UndecoratedText(Tail(nodes))

\* the white space a span ends in
TrailingSpace(str) == SubSeq(str, Len(str) - TrailingSpaces(str) + 1, Len(str))

RECURSIVE ReplacedText(_, _)
\* the text with each convertible mention replaced by its duration and every
\* other character kept, the white space next to a mention included
ReplacedText(segs, s) ==
  IF segs = <<>> THEN <<>>
  ELSE (IF Head(segs).kind = "match" /\ Convertible(Head(segs).m, s)
        THEN formatTimeFromMoney(amountFromMatch(Head(segs).m), s.hourlyRate, s)
             \o TrailingSpace(SegmentText(Head(segs)))
        ELSE SegmentText(Head(segs)))
       \o ReplacedText(Tail(segs), s)

\* C24: in inline and tooltip mode the visible text without the annotation
\* decorations equals the original text; in replace mode every character
\* outside the money mentions, the white space next to a mention included,
\* is kept around the durations.
C24_TextPreserved ==
  ret.done =>
    /\ call.displayMode \in {"inline", "tooltip"} => UndecoratedText(ret.frag) = call.text
    /\ call.displayMode = "replace" => ret.str = ReplacedText(Segments, TextSettings(call))

\* C25: the span of a symbol-prefixed mention ends at the last character of
\* its number or scale word and never includes white space that follows it.
C25_SymbolSpan ==
  ret.done =>
    \A i \in 1..Len(ret.matches) :
      At(call.text, ret.matches[i].index) \in SYMBOLS =>
        /\ ~IsSpace(At(call.text, ret.matches[i].end - 1))
        /\ ret.matches[i].suf = <<>> => ret.matches[i].end = ret.matches[i].numEnd

-----------------------------------------------------------------------------
\* Properties of the document, continued

\* C23 as stated: in every reachable tree each annotation span has an
\* ancestor that bears data-mt-processed, each element with a hover label
\* bears the marker itself, and each wrapper bears the marker.
C23_AnnotationsMarked ==
  \A p \in AllPaths(tree) :
    /\ NodeAt(tree, p).class = "mt-annotation" => MarkersAbove(tree, p) # {}
    /\ (~IsText(NodeAt(tree, p)) /\ NodeAt(tree, p).title # <<>>) => NodeAt(tree, p).processed
    /\ IsMtWrapper(tree, p) => NodeAt(tree, p).processed

\* the annotation spans with no ancestor that bears data-mt-processed
UnmarkedAnnotations(root) ==
  {p \in AllPaths(root) :
     NodeAt(root, p).class = "mt-annotation" /\ MarkersAbove(root, p) = {}}

\* every wrapper and every element with a hover label bears the marker
DecoratedAreMarked ==
  \A p \in AllPaths(tree) :
    (IsMtWrapper(tree, p) \/ (~IsText(NodeAt(tree, p)) /\ NodeAt(tree, p).title # <<>>))
      => NodeAt(tree, p).processed

\* a pass adds no annotation span outside a marked element
PassInsertsMarked ==
  last'.op \in PassOps =>
    Cardinality(UnmarkedAnnotations(tree')) <= Cardinality(UnmarkedAnnotations(tree))

\* C23: every decoration a pass inserts lies inside an element that bears
\* data-mt-processed: every wrapper and every element with a hover label bears
\* the marker, and no pass adds an annotation span that has no marked
\* ancestor; an annotation span is without one only where the page moved it
\* out of its wrapper.
C23_InsertedMarked == []DecoratedAreMarked /\ [][PassInsertsMarked]_vars

\* the annotations at p whose parent has the class
AnnotationsUnder(class) ==
  {p \in AllPaths(tree) :
     /\ p # <<>> /\ NodeAt(tree, p).class = "mt-annotation"
     /\ NodeAt(tree, ParentPath(p)).class = class}

\* a debounced pass put an annotation into a wrapper while an annotation span
\* the page had moved out of its wrapper lay unmarked
C23_Witness ==
  /\ last.op = "fire" /\ passMutations > 0
  /\ AnnotationsUnder("mt-wrapper") # {}
  /\ UnmarkedAnnotations(tree) # {}

-----------------------------------------------------------------------------
\* SpecWalk: one call of processDocument, a step for the collection of the
\* text nodes and a step for each turn of the loop over them.

Em(str) == Element("EM", "", <<TextNode(str)>>)

WalkTrees ==
  InitialTrees \cup PriceTrees \cup
  { Body(<<TextNode(<<" ", "$", "5">>), Element("P", "", <<TextNode(Dollar5)>>)>>),
    Body(<<Element("P", "", <<Em(Hello), TextNode(PayFiveNow), Em(Dollar0)>>)>>),
    Body(<<TextNode(DollarZeroBetween), TextNode(Hello), TextNode(Dollar5)>>) }

\* the position of the call: textNodes holds the paths, in the tree as it is
\* now, of the collected nodes not yet processed; snapshot the text of every
\* collected node
Walk(phase, textNodes, snapshot, visited, before) ==
  [phase |-> phase, textNodes |-> textNodes, snapshot |-> snapshot,
   visited |-> visited, before |-> before]

\* the latest turn of the loop: the tree before it, the node it was given and
\* what processTextNode did
Turn(prev, path, r, mutations) ==
  [prev |-> prev, path |-> path, replaced |-> r.replaced, count |-> r.count,
   mutations |-> mutations + (IF r.replaced THEN 1 ELSE 0)]

NoTurn == [prev |-> Body(<<>>), path |-> <<>>, replaced |-> FALSE, count |-> 0,
           mutations |-> 0]

walkIdleVars ==
  <<settings, store, loadQueue, observers, timers, t, sinceNotify, hostBudget,
    storeBudget, last, passMutations, passesInRow, stormNotifs, stormRuns,
    markedLexed>>

WalkInit ==
  /\ tree \in WalkTrees
  /\ \E v \in StoreValues : settings = LoadedSettings(v)
  /\ store = EmptyStore /\ loadQueue = <<>>
  /\ observers = 0 /\ timers = {} /\ t = 0
  /\ sinceNotify = Wait /\ hostBudget = 0 /\ storeBudget = 0
  /\ last = [op |-> "start", notified |-> FALSE]
  /\ passMutations = 0 /\ passesInRow = 0 /\ stormNotifs = 0 /\ stormRuns = 0
  /\ markedLexed = 0
  /\ call = Walk("collect", <<>>, <<>>, 0, tree)
  /\ ret = NoTurn

\* while ((node = walker.nextNode())) textNodes.push(node)
WalkCollect ==
  /\ call.phase = "collect"
  /\ \E paths \in {CollectTextNodes(tree)} :
       call' = Walk("process", paths,
                    [i \in 1..Len(paths) |-> NodeAt(tree, paths[i]).value], 0, tree)
  /\ UNCHANGED <<tree, ret, walkIdleVars>>

\* one turn of for (const tn of textNodes) processTextNode(tn)
WalkProcess ==
  /\ call.phase = "process" /\ call.textNodes # <<>>
  /\ \E r \in {processTextNode(tree, Head(call.textNodes), settings)} :
       /\ tree' = r.tree
       /\ call' = [call EXCEPT
                     !.textNodes = [i \in 1..(Len(call.textNodes) - 1) |->
                                      ShiftPath(call.textNodes[i + 1],
                                                Head(call.textNodes), r.count)],
                     !.visited = @ + 1]
       /\ ret' = Turn(tree, Head(call.textNodes), r, ret.mutations)
  /\ UNCHANGED walkIdleVars

\* the loop is over and processDocument returns
WalkReturn ==
  /\ call.phase = "process" /\ call.textNodes = <<>>
  /\ call' = [call EXCEPT !.phase = "done"]
  /\ UNCHANGED <<tree, ret, walkIdleVars>>

WalkNext ==
  \/ WalkCollect
  \/ WalkProcess
  \/ WalkReturn

SpecWalk == WalkInit /\ [][WalkNext]_vars

\* the call runs to completion: no other task runs within it
LiveWalk == SpecWalk /\ WF_vars(WalkNext)

-----------------------------------------------------------------------------
\* Properties of one call of processDocument (SpecWalk, LiveWalk)

\* a turn of the loop has run; the node it was given, as it was before
TurnTaken == call.phase # "collect" /\ call.visited > 0
TurnNode == NodeAt(ret.prev, ret.path)

\* the text node the turn was given is one processTextNode reads: its parent
\* is no skipped tag and nothing above it bears a marker or an opt-out
TurnEligible ==
  /\ IsText(TurnNode)
  /\ NodeAt(ret.prev, ParentPath(ret.path)).tag \notin SKIP_TAGS
  /\ \A k \in 0..(Len(ret.path) - 1) :
       /\ ~NodeAt(ret.prev, Prefix(ret.path, k)).processed
       /\ ~NodeAt(ret.prev, Prefix(ret.path, k)).ignore

\* C26: processTextNode on an eligible text leaf with no money mention leaves
\* the tree as it was: no replacement, no marker and no mutation for the
\* observer.
C26_NoMatchNoEffect ==
  (TurnTaken /\ TurnEligible /\ AllMatches(TurnNode.value, 1) = <<>>)
    => /\ tree = ret.prev
       /\ ~ret.replaced

\* the loop went over "hi" between two texts it replaced
C26_Witness ==
  /\ call.phase = "done" /\ call.snapshot = <<DollarZeroBetween, Hello, Dollar5>>
  /\ ret.mutations = 2
  /\ \E i \in 1..Len(tree.children) : tree.children[i] = TextNode(Hello)

\* the list is fixed when the loop starts; what is left of it are the nodes
\* of the snapshot, with their text, none of them inside a marked element
FixedList ==
  call.phase # "collect" =>
    /\ call.visited + Len(call.textNodes) = Len(call.snapshot)
    /\ ret.mutations <= call.visited
    /\ \A i \in 1..Len(call.textNodes) :
         /\ IsText(NodeAt(tree, call.textNodes[i]))
         /\ NodeAt(tree, call.textNodes[i]).value = call.snapshot[call.visited + i]
         /\ MarkersAbove(tree, call.textNodes[i]) = {}

\* C27: the loop goes over the list of eligible leaves collected from the
\* snapshot: each is given to processTextNode once and replaced at most once,
\* the nodes created during the pass are not in the list, and the pass ends.
C27_PassTerminates == []FixedList /\ <>(call.phase = "done")

\* the pass ended although it left text nodes a new collection would accept
C27_Witness ==
  /\ call.phase = "done" /\ ret.mutations >= 2
  /\ CollectTextNodes(tree) # <<>>

\* the parent of the node the turn was given, before and after
ParentBefore == NodeAt(ret.prev, ParentPath(ret.path))
ParentAfter == NodeAt(tree, ParentPath(ret.path))
TurnIndex == ret.path[Len(ret.path)]

\* the tree differs from the one before the turn in the child list of that
\* parent only
OnlyParentChanged ==
  IF Len(ret.path) = 1 THEN [tree EXCEPT !.children = ParentBefore.children] = ret.prev
  ELSE ReplaceAt(tree, ParentPath(ret.path),
                 <<[ParentAfter EXCEPT !.children = ParentBefore.children]>>) = ret.prev

\* C28: a replacement puts the nodes of the fragment, in their order, where
\* the text node was, in one step; the siblings before and after it and the
\* rest of the tree are as they were.
C28_SingleReplace ==
  (TurnTaken /\ ret.replaced) =>
    /\ OnlyParentChanged
    /\ Len(ParentAfter.children) = Len(ParentBefore.children) + ret.count - 1
    /\ \A j \in 1..(TurnIndex - 1) : ParentAfter.children[j] = ParentBefore.children[j]
    /\ \A j \in (TurnIndex + 1)..Len(ParentBefore.children) :
         ParentAfter.children[j + ret.count - 1] = ParentBefore.children[j]
    /\ SubSeq(ParentAfter.children, TurnIndex, TurnIndex + ret.count - 1)
         = buildAnnotatedFragment(TurnNode.value, settings)
    /\ settings.displayMode \in {"inline", "tooltip"} =>
         UndecoratedText(SubSeq(ParentAfter.children, TurnIndex, TurnIndex + ret.count - 1))
           = TurnNode.value

\* "Pay $5 now" between two elements became three nodes between them
C28_Witness ==
  /\ TurnTaken /\ ret.replaced /\ ret.count = 3
  /\ TurnNode.value = PayFiveNow
  /\ ParentAfter.children[1] = Em(Hello)
  /\ ParentAfter.children[5] = Em(Dollar0)

-----------------------------------------------------------------------------
\* Properties of the start of the content script (SpecFail)

\* init's loadSettings has not called back yet
InitQueued == \E i \in 1..Len(loadQueue) : loadQueue[i].cb = "init"

AllPassOps == PassOps \cup {"initCaught", "reloadUncaught", "fireUncaught"}

\* C29: while init's load has not completed no pass has run and the engine
\* has put nothing into the tree; the observer is installed exactly once, by
\* init's callback after its pass has ended, also when that pass threw, so the
\* initial pass is not observed and schedules no rescan.
C29_StartupOrder ==
  /\ observers <= 1
  /\ observers = 0 <=> InitQueued
  /\ InitQueued =>
       /\ Head(loadQueue).cb = "init"
       /\ last.op \notin AllPassOps
       /\ settings = DEFAULT /\ timers = {} /\ passMutations = 0
       /\ WrapperPaths(tree) = {}
  /\ last.op \in {"init", "initCaught"} => (~last.notified /\ timers = {})

\* the options page saved while init's load was under way and the initial
\* pass threw: the observer is installed, the reload is still to come
C29_Witness ==
  /\ last.op = "initCaught" /\ observers = 1
  /\ loadQueue # <<>> /\ Head(loadQueue).cb = "reload"

-----------------------------------------------------------------------------
\* Properties of the config-triggered pass (Spec)

\* the elements of root that bear data-mt-processed, with their content, in
\* document order
MarkedIn(root) ==
  The({[i \in 1..Len(paths) |-> NodeAt(root, paths[i])] :
         paths \in {SelectSeq(DocOrder(root, <<>>),
                              LAMBDA q : NodeAt(root, q).processed)}})

RECURSIVE IsSubsequence(_, _)
\* a is b with some elements left out
IsSubsequence(a, b) ==
  IF a = <<>> THEN TRUE
  ELSE IF b = <<>> THEN FALSE
  ELSE IF Head(a) = Head(b) THEN IsSubsequence(Tail(a), Tail(b))
  ELSE IsSubsequence(a, Tail(b))

\* the text of the text leaves of root
LeafTexts(root) ==
  {NodeAt(root, q).value : q \in {q \in AllPaths(root) : IsText(NodeAt(root, q))}}

\* w is a wrapper the fragment builder makes from one of the texts with the
\* settings s
BuiltWith(w, texts, s) ==
  \E v \in texts :
    \E frag \in {buildAnnotatedFragment(v, s)} :
      \E j \in 1..Len(frag) : frag[j] = w

\* the pass a settings change triggers keeps every marked element and its
\* content; a marked element that is new was built from a text leaf of the
\* tree before the pass, with the settings just loaded
RescanStep ==
  last'.op = "reload" =>
    /\ IsSubsequence(MarkedIn(tree), MarkedIn(tree'))
    /\ \A i \in 1..Len(MarkedIn(tree')) :
         \/ \E j \in 1..Len(MarkedIn(tree)) : MarkedIn(tree)[j] = MarkedIn(tree')[i]
         \/ BuiltWith(MarkedIn(tree')[i], LeafTexts(tree), settings')

\* C30: a rescan triggered by a settings change leaves every existing wrapper
\* bearing data-mt-processed and its content as they were; only text leaves
\* not yet under a marker are annotated, with the new settings.
C30_FrozenAcrossReload == [][RescanStep]_vars

\* after a change to replace mode the wrapper made in inline mode still has
\* its annotation span, next to a wrapper that holds only the duration
C30_Witness ==
  /\ last.op = "reload" /\ settings.displayMode = "replace"
  /\ AnnotationsUnder("mt-wrapper") # {}
  /\ \E p \in WrapperPaths(tree) :
       /\ Len(NodeAt(tree, p).children) = 1
       /\ NodeAt(tree, p).children[1] = TextNode(<<"2", "0", "m", "i", "n">>)

-----------------------------------------------------------------------------
\* Properties of the options page (SpecOptions), continued

\* C31: every write Save makes to the store carries an hourlyRate, a
\* daysPerWeek and an hoursPerDay above zero, whatever income, days per week
\* and hours per day were entered, negative entries in both schedule fields
\* included.
C31_ValidSchedulePersisted ==
  ret.wrote =>
    /\ IsFinite(store.hourlyRate) /\ RPos(store.hourlyRate)
    /\ IsFinite(store.daysPerWeek) /\ RPos(store.daysPerWeek)
    /\ IsFinite(store.hoursPerDay) /\ RPos(store.hoursPerDay)

====
